---- MODULE Spec2Model ----
(***************************************************************************)
(* Model of the valuation pipeline of bot.py: the feedback correction      *)
(* factor, the Gemini client with its retry loop, the category dispatch    *)
(* of EconomicEngine.analyze_olx_item, and the monitoring worker with the  *)
(* olx_posts / user_feedback tables.                                       *)
(***************************************************************************)
EXTENDS Integers, Sequences, FiniteSets, Bags, TLC

(* ------------------------------ bounds --------------------------------- *)
\* listing identifiers that the marketplace can show
NumIds == 2
\* voters
NumUsers == 2
\* rows of user_feedback the model lets accumulate
MaxVotes == 5
\* feedback callbacks that can be in progress at the same time
NumCallbacks == 2

OlxIds == 1..NumIds
Users == 1..NumUsers
\* the two listings whose tallies and factors are compared
FactorIds == {1, 2}

(* -------------------------- program constants -------------------------- *)
\* EconomicConfig.FEEDBACK_CORRECTION_MULTIPLIER = 0.1, as the rational 1/10
FEEDBACK_CORRECTION_MULTIPLIER_NUM == 1
FEEDBACK_CORRECTION_MULTIPLIER_DEN == 10

\* EconomicConfig.TRANSACTION_FEES_PERCENT, MIN_PROFIT_MARGIN_PERCENT
TRANSACTION_FEES_PERCENT == 10
MIN_PROFIT_MARGIN_PERCENT == 20
\* EconomicConfig.MACHINERY_DEPRECIATION_RATE = 0.05 and
\* MACHINERY_CONDITION_WEIGHT = 0.4, in hundredths
MACHINERY_DEPRECIATION_RATE_X100 == 5
MACHINERY_CONDITION_WEIGHT_X100 == 40
\* EconomicConfig.MACHINERY_HOURS_PENALTY_RATE = 0.000005, in millionths
MACHINERY_HOURS_PENALTY_RATE_X1000000 == 5
\* EconomicConfig.SPOT_PRICES: 2850.0 and 48.5 UAH per gram, in tenths
GOLD_585_UAH_PER_GRAM_X10 == 28500
SILVER_925_UAH_PER_GRAM_X10 == 485

\* max_retries of gemini_api_call, and its first delay
max_retries == 3
InitialDelay == 1

VARIABLES
    user_feedback,  \* table user_feedback: a bag of rows [user_id, olx_id, is_like]
    fcf,            \* per listing id: the last call of _get_feedback_correction_factor
    callbacks,      \* per running process_callback_feedback: its position, the
                    \* listing of its button, and its local correction_factor
    g_key,          \* GEMINI_API_KEY is set
    g_pc,           \* gemini_api_call: "idle", "request", "sleep", "done"
    g_attempt,      \* the loop variable attempt
    g_delay,        \* the local delay
    g_requests,     \* session.post calls made by the current call
    g_sleeps,       \* the asyncio.sleep arguments of the current call, in order
    g_log,          \* what the current call logged, one entry per failed attempt
    g_result,       \* what the call returned: "pending", "None", "parsed"
    g_calls,        \* calls started so far
    fetched,        \* the last call of fetch_olx_data made on its own: the pages
                    \* its requests got and the list it returned
    scored,         \* the last call of a scoring model made on its own: its
                    \* arguments, its locals and the envelope fields it returned
    last_analysis,  \* the last call of analyze_olx_item: its item, the vision
                    \* result it worked with, the scoring model it invoked, and
                    \* whether it raised or which envelope it returned
    olx_posts,      \* table olx_posts: its rows in insertion order
    db_status,      \* command tag of the last INSERT INTO olx_posts
    channel_set,    \* CHANNEL_ID is truthy
    w_pc,           \* monitoring_worker: "sleep", "post" (in the loop body), "rss"
    w_cycle,        \* polling cycles started; the time of the cycle
    w_seen,         \* ids on the pages of this cycle that had a row when fetched
    new_posts,      \* the list new_posts
    w_i,            \* index of the current post in new_posts
    w_step,         \* index of the current statement of the loop body
    ai_result,      \* the local ai_result
    analyzed,       \* per listing id: calls of analyze_olx_item
    send_calls,     \* per listing id: calls of send_olx_post
    channel,        \* listing ids whose post was delivered to the channel
    admin_status,   \* the last /admin_status update handled: who sent it, what
                    \* the handler read and what it answered
    pool_tasks,     \* per task that uses the connection pool: where it is in its
                    \* acquisitions and how many connections it holds
    fsm_state,      \* the FSM state of the user of the learning dialogue
    fsm_data,       \* the FSM data of that user: the lesson whose topic,
                    \* quiz_answer and quiz_hint it holds (0: the keys are absent)
    last_lesson,    \* the lesson of the last lesson message the user received
    lesson_count,   \* lessons generate_collector_lesson has returned so far
    learn_runs      \* the handler runs of the dialogue that are in flight

factorVars == <<user_feedback, fcf, callbacks>>
geminiVars == <<g_key, g_pc, g_attempt, g_delay, g_requests, g_sleeps, g_log, g_result, g_calls>>
fetchVars == <<fetched>>
scoreVars == <<scored>>
engineVars == <<last_analysis>>
storeVars == <<olx_posts, db_status>>
workerVars == <<channel_set, w_pc, w_cycle, w_seen, new_posts, w_i, w_step, ai_result,
                analyzed, send_calls, channel>>
adminVars == <<admin_status>>
poolVars == <<pool_tasks>>
learnVars == <<fsm_state, fsm_data, last_lesson, lesson_count, learn_runs>>
handlerVars == <<adminVars, poolVars, learnVars>>
vars == <<factorVars, geminiVars, fetchVars, scoreVars, engineVars, storeVars, workerVars, handlerVars>>

(* ------------------------- values and helpers -------------------------- *)
\* a nullable SQL integer, as asyncpg hands it to Python (NULL -> None)
SqlNull == [isnull |-> TRUE, val |-> 0]
SqlInt(n) == [isnull |-> FALSE, val |-> n]

\* what a Python call produces: a float (kept exact, as num/den) or an exception
Returned(n, d) == [kind |-> "value", num |-> n, den |-> d]
Raised(exc) == [kind |-> exc, num |-> 0, den |-> 1]

RatLeq(a, b) == a.num * b.den <= b.num * a.den

RECURSIVE SumOver(_, _, _)
SumOver(rows, table, flag) ==
    IF rows = {} THEN 0
    ELSE LET r == CHOOSE x \in rows : TRUE
         IN (IF r.is_like = flag THEN CopiesIn(r, table) ELSE 0)
            + SumOver(rows \ {r}, table, flag)

\* SELECT SUM(CASE WHEN is_like = flag THEN 1 ELSE 0 END) FROM user_feedback
\* WHERE olx_id = $1 : an aggregate without GROUP BY yields one row, whose SUM
\* is NULL when no row matches
SqlSumCase(table, olx_id, flag) ==
    LET rows == {r \in BagToSet(table) : r.olx_id = olx_id}
    IN IF rows = {} THEN SqlNull ELSE SqlInt(SumOver(rows, table, flag))

\* mutant: the score is not normalised by the number of votes
GetFeedbackCorrectionFactor_Unnormalised(table, olx_id) ==
    LET likesCol == SqlSumCase(table, olx_id, TRUE)
        dislikesCol == SqlSumCase(table, olx_id, FALSE)
    IN IF likesCol.isnull \/ dislikesCol.isnull THEN Raised("TypeError")
       ELSE IF likesCol.val + dislikesCol.val > 0
            THEN Returned(FEEDBACK_CORRECTION_MULTIPLIER_DEN
                            + (likesCol.val - dislikesCol.val) * FEEDBACK_CORRECTION_MULTIPLIER_NUM,
                          FEEDBACK_CORRECTION_MULTIPLIER_DEN)
            ELSE Returned(1, 1)

\* mutant: the sign of the score is inverted (dislikes - likes)
GetFeedbackCorrectionFactor_Inverted(table, olx_id) ==
    LET likesCol == SqlSumCase(table, olx_id, TRUE)
        dislikesCol == SqlSumCase(table, olx_id, FALSE)
    IN IF likesCol.isnull \/ dislikesCol.isnull THEN Raised("TypeError")
       ELSE IF likesCol.val + dislikesCol.val > 0
            THEN LET total_feedback == likesCol.val + dislikesCol.val
                 IN Returned(total_feedback * FEEDBACK_CORRECTION_MULTIPLIER_DEN
                               + (dislikesCol.val - likesCol.val) * FEEDBACK_CORRECTION_MULTIPLIER_NUM,
                             total_feedback * FEEDBACK_CORRECTION_MULTIPLIER_DEN)
            ELSE Returned(1, 1)

\* _get_feedback_correction_factor: record['likes'] + record['dislikes'] is
\* evaluated before the "or 0" defaults, so a NULL sum raises TypeError; otherwise
\* 1.0 + ((likes - dislikes) / total) * 0.1, and 1.0 when the total is 0
GetFeedbackCorrectionFactor(table, olx_id) ==
    LET likesCol == SqlSumCase(table, olx_id, TRUE)
        dislikesCol == SqlSumCase(table, olx_id, FALSE)
    IN IF likesCol.isnull \/ dislikesCol.isnull THEN Raised("TypeError")
       ELSE IF likesCol.val + dislikesCol.val > 0
            THEN LET likes == likesCol.val
                     dislikes == dislikesCol.val
                     total_feedback == likes + dislikes
                 IN Returned(total_feedback * FEEDBACK_CORRECTION_MULTIPLIER_DEN
                               + (likes - dislikes) * FEEDBACK_CORRECTION_MULTIPLIER_NUM,
                             total_feedback * FEEDBACK_CORRECTION_MULTIPLIER_DEN)
            ELSE Returned(1, 1)

\* the votes of a listing, counted row by row (the input of a call)
RECURSIVE CountVotes(_, _, _, _)
CountVotes(table, olx_id, flag, users) ==
    IF users = {} THEN 0
    ELSE LET u == CHOOSE x \in users : TRUE
         IN CopiesIn([user_id |-> u, olx_id |-> olx_id, is_like |-> flag], table)
            + CountVotes(table, olx_id, flag, users \ {u})

NoCall == [called |-> FALSE, likes |-> 0, dislikes |-> 0, result |-> Returned(1, 1)]

(* ----------------- the feedback store and the factor ------------------- *)
\* process_callback_feedback: INSERT INTO user_feedback (user_id, olx_id, is_like)
FeedbackInsert(u, id, like) ==
    /\ BagCardinality(user_feedback) < MaxVotes
    /\ user_feedback' = user_feedback
                          (+) SetToBag({[user_id |-> u, olx_id |-> id, is_like |-> like]})
    /\ UNCHANGED <<fcf, callbacks>>

\* one call of _get_feedback_correction_factor(pool, olx_id)
FactorCall(id) ==
    /\ fcf' = [fcf EXCEPT ![id] =
                 [called |-> TRUE,
                  likes |-> CountVotes(user_feedback, id, TRUE, Users),
                  dislikes |-> CountVotes(user_feedback, id, FALSE, Users),
                  result |-> GetFeedbackCorrectionFactor(user_feedback, id)]]
    /\ UNCHANGED <<user_feedback, callbacks>>

Callbacks == 1..NumCallbacks
\* no update is being handled
IdleCallback == [pc |-> "idle", olx_id |-> 0, correction_factor |-> Returned(1, 1), stored |-> FALSE, written |-> FALSE, answer |-> "none"]
\* a handler that has returned: its locals are gone; what remains is how far
\* it got (vote stored, multiplier written) and the answer it sent
Ended(pc, stored, written, answer) == [IdleCallback EXCEPT !.pc = pc, !.stored = stored, !.written = written, !.answer = answer]

FactorIdle ==
    /\ user_feedback = EmptyBag
    /\ fcf = [id \in FactorIds |-> NoCall]
    /\ callbacks = [c \in Callbacks |-> IdleCallback]

GeminiIdle ==
    /\ g_pc = "idle"
    /\ g_attempt = 0
    /\ g_delay = InitialDelay
    /\ g_requests = 0
    /\ g_sleeps = <<>>
    /\ g_log = <<>>
    /\ g_result = "pending"
    /\ g_calls = 0

NoFetch == [called |-> FALSE, results |-> <<>>, posts |-> <<>>]
FetchIdle == fetched = NoFetch

NoScore == [model |-> "none", raised |-> FALSE]
ScoreIdle == scored = NoScore

\* no /admin_status update has been handled
NoStatus ==
    [asked |-> FALSE, user |-> 0, kind |-> "none", reads |-> 0, total_posts |-> 0,
     relevant_posts |-> 0, feedback_like |-> 0, feedback_dislike |-> 0]

\* tasks that use the pool: the monitoring worker (0), the feedback callbacks
\* that can run at the same time, and a handler with a single acquisition
PoolWorker == 0
PoolCallbacks == 1..NumCallbacks
PoolPlain == NumCallbacks + 1
PoolTasks == {PoolWorker} \cup PoolCallbacks \cup {PoolPlain}
PoolIdle == pool_tasks = [t \in PoolTasks |-> [pc |-> "idle", held |-> 0]]

\* updates of one user that are handled at the same time
NumRuns == 2
LearnRuns == 1..NumRuns
IdleRun == [pc |-> "idle", lesson |-> 0]
\* a run that ended because a send raised
RaisedRun == [pc |-> "raised", lesson |-> 0]
\* no /learn_collector yet: no FSM state, empty data
LearnIdle ==
    /\ fsm_state = "none"
    /\ fsm_data = 0
    /\ last_lesson = 0
    /\ lesson_count = 0
    /\ learn_runs = [h \in LearnRuns |-> IdleRun]

HandlersIdle ==
    /\ admin_status = NoStatus
    /\ PoolIdle
    /\ LearnIdle

NoAnalysis ==
    [called |-> FALSE, olx_id |-> 0, title |-> {}, ai |-> [ict |-> "absent", manufacturer |-> FALSE, other_details |-> FALSE, estimated_weight |-> FALSE],
     invoked |-> "none", raised |-> FALSE,
     envelope |-> [type |-> "none", is_relevant |-> FALSE, feedback_multiplier |-> [kind |-> "absent", num |-> 0, den |-> 1]]]

EngineIdle == last_analysis = NoAnalysis

\* init_db: CREATE TABLE IF NOT EXISTS olx_posts, empty at first
StoreIdle ==
    /\ olx_posts = <<>>
    /\ db_status = ""

WorkerIdle ==
    /\ w_pc = "sleep"
    /\ w_cycle = 0
    /\ w_seen = {}
    /\ new_posts = <<>>
    /\ w_i = 0
    /\ w_step = 0
    /\ ai_result = NoAnalysis.envelope
    /\ analyzed = [id \in OlxIds |-> 0]
    /\ send_calls = [id \in OlxIds |-> 0]
    /\ channel = {}

OthersIdle ==
    /\ StoreIdle
    /\ channel_set = TRUE
    /\ WorkerIdle

InitFactor ==
    /\ FactorIdle
    /\ g_key = TRUE
    /\ GeminiIdle
    /\ FetchIdle
    /\ ScoreIdle
    /\ HandlersIdle
    /\ EngineIdle
    /\ OthersIdle

NextFactor ==
    \/ \E u \in Users, id \in FactorIds, like \in BOOLEAN :
          FeedbackInsert(u, id, like) /\ UNCHANGED <<geminiVars, handlerVars, scoreVars, fetchVars, engineVars, storeVars, workerVars>>
    \/ \E id \in FactorIds : FactorCall(id) /\ UNCHANGED <<geminiVars, handlerVars, scoreVars, fetchVars, engineVars, storeVars, workerVars>>

SpecFactor == InitFactor /\ [][NextFactor]_vars

(* --------------------------- C3, C4, C5 -------------------------------- *)
IsNeutral(res) == res.kind = "value" /\ res.num = res.den

\* C3: a call for a listing id with no rows in user_feedback returns the
\* neutral factor 1.0
C3_NoVotesNeutral ==
    \A id \in FactorIds :
        (fcf[id].called /\ fcf[id].likes + fcf[id].dislikes = 0)
            => IsNeutral(fcf[id].result)

\* C4: every value the function returns lies in [1 - k, 1 + k], k = 1/10,
\* whatever the tally, repeated votes of one voter included
C4_FactorWithinBounds ==
    \A id \in FactorIds :
        (fcf[id].called /\ fcf[id].result.kind = "value")
            => /\ RatLeq(Returned(FEEDBACK_CORRECTION_MULTIPLIER_DEN - FEEDBACK_CORRECTION_MULTIPLIER_NUM,
                                  FEEDBACK_CORRECTION_MULTIPLIER_DEN), fcf[id].result)
               /\ RatLeq(fcf[id].result,
                         Returned(FEEDBACK_CORRECTION_MULTIPLIER_DEN + FEEDBACK_CORRECTION_MULTIPLIER_NUM,
                                  FEEDBACK_CORRECTION_MULTIPLIER_DEN))

\* a call returned the upper bound 1.1 for a tally in which one voter voted twice,
\* and another call returned the lower bound 0.9
C4_Witness ==
    \E a, b \in FactorIds :
        /\ fcf[a].called /\ fcf[a].likes >= 2 /\ fcf[a].result.kind = "value"
        /\ \E u \in Users : CopiesIn([user_id |-> u, olx_id |-> a, is_like |-> TRUE], user_feedback) >= 2
        /\ fcf[a].result.num * 10 = fcf[a].result.den * 11
        /\ fcf[b].called /\ fcf[b].result.kind = "value"
        /\ fcf[b].result.num * 10 = fcf[b].result.den * 9

\* C5 as stated: of two tallies, the one with the larger likes - dislikes never
\* gets the smaller factor
C5_MonotonicInDifference ==
    \A a, b \in FactorIds :
        (/\ fcf[a].called /\ fcf[a].result.kind = "value"
         /\ fcf[b].called /\ fcf[b].result.kind = "value"
         /\ fcf[a].likes - fcf[a].dislikes > fcf[b].likes - fcf[b].dislikes)
            => RatLeq(fcf[b].result, fcf[a].result)

\* C5 amended: of two tallies with the same number of votes, the one with the
\* larger likes - dislikes gets a factor, and never the smaller one
C5_MonotonicForEqualTotals ==
    \A a, b \in FactorIds :
        (/\ fcf[a].called /\ fcf[b].called
         /\ fcf[a].likes + fcf[a].dislikes = fcf[b].likes + fcf[b].dislikes
         /\ fcf[a].likes - fcf[a].dislikes > fcf[b].likes - fcf[b].dislikes)
            => /\ fcf[a].result.kind = "value" /\ fcf[b].result.kind = "value"
               /\ RatLeq(fcf[b].result, fcf[a].result)

\* two tallies of two votes each, (2, 0) and (1, 1), have both been evaluated
C5_Witness ==
    \E a, b \in FactorIds :
        /\ fcf[a].called /\ fcf[a].likes = 2 /\ fcf[a].dislikes = 0
        /\ fcf[b].called /\ fcf[b].likes = 1 /\ fcf[b].dislikes = 1
        /\ fcf[a].result.kind = "value" /\ fcf[b].result.kind = "value"

(* --------------------------- gemini_api_call --------------------------- *)
\* calls of gemini_api_call the model follows
MaxCalls == 2

\* what one session.post attempt can come to: a 200 response with a parsable
\* body, a 200 response whose body does not parse (an exception inside the try),
\* a non-200 status, or an exception of the transport (timeout included)
Outcomes == {"ok", "bad_body", "non200", "transport_error"}

RECURSIVE SumSeq(_)
SumSeq(s) == IF s = <<>> THEN 0 ELSE Head(s) + SumSeq(Tail(s))

\* entry of gemini_api_call: no key, no request; else the loop starts
GeminiApiCall ==
    /\ g_pc = "idle"
    /\ g_calls < MaxCalls
    /\ g_calls' = g_calls + 1
    /\ g_attempt' = 0
    /\ g_delay' = InitialDelay
    /\ g_requests' = 0
    /\ g_sleeps' = <<>>
    /\ g_log' = <<>>
    /\ IF g_key
         THEN g_pc' = "request" /\ g_result' = "pending"
         ELSE g_pc' = "done" /\ g_result' = "None"
    /\ UNCHANGED g_key

\* mutant: no "except Exception" around the request, the exception of the
\* transport or of the parsing leaves gemini_api_call
GeminiRequest_NoExcept(outcome) ==
    /\ g_pc = "request"
    /\ g_requests' = g_requests + 1
    /\ IF outcome = "ok"
         THEN /\ g_result' = "parsed"
              /\ g_pc' = "done"
              /\ UNCHANGED g_log
         ELSE /\ g_log' = Append(g_log, [attempt |-> g_attempt + 1, what |-> outcome])
              /\ IF outcome = "non200"
                   THEN g_pc' = "sleep" /\ UNCHANGED g_result
                   ELSE g_pc' = "done" /\ g_result' = "raised"
    /\ UNCHANGED <<g_key, g_attempt, g_delay, g_sleeps, g_calls>>

\* one pass of the try block up to its first await asyncio.sleep or its return
GeminiRequest(outcome) ==
    /\ g_pc = "request"
    /\ g_requests' = g_requests + 1
    /\ IF outcome = "ok"
         THEN /\ g_result' = "parsed"
              /\ g_pc' = "done"
              /\ UNCHANGED g_log
         ELSE /\ g_log' = Append(g_log, [attempt |-> g_attempt + 1, what |-> outcome])
              /\ g_pc' = "sleep"
              /\ UNCHANGED g_result
    /\ UNCHANGED <<g_key, g_attempt, g_delay, g_sleeps, g_calls>>

\* mutant: the loop runs while attempt <= max_retries
GeminiSleep_OneMore ==
    /\ g_pc = "sleep"
    /\ g_sleeps' = Append(g_sleeps, g_delay)
    /\ g_delay' = g_delay * 2
    /\ g_attempt' = g_attempt + 1
    /\ IF g_attempt + 1 <= max_retries
         THEN g_pc' = "request" /\ UNCHANGED g_result
         ELSE g_pc' = "done" /\ g_result' = "None"
    /\ UNCHANGED <<g_key, g_requests, g_log, g_calls>>

\* await asyncio.sleep(delay); delay *= 2; then the next pass of
\* for attempt in range(max_retries), or return None after the last one
GeminiSleep ==
    /\ g_pc = "sleep"
    /\ g_sleeps' = Append(g_sleeps, g_delay)
    /\ g_delay' = g_delay * 2
    /\ g_attempt' = g_attempt + 1
    /\ IF g_attempt + 1 < max_retries
         THEN g_pc' = "request" /\ UNCHANGED g_result
         ELSE g_pc' = "done" /\ g_result' = "None"
    /\ UNCHANGED <<g_key, g_requests, g_log, g_calls>>

\* the caller has the result
GeminiReturn ==
    /\ g_pc = "done"
    /\ g_pc' = "idle"
    /\ UNCHANGED <<g_key, g_attempt, g_delay, g_requests, g_sleeps, g_log, g_result, g_calls>>

InitGemini ==
    /\ FactorIdle
    /\ g_key \in BOOLEAN
    /\ GeminiIdle
    /\ FetchIdle
    /\ ScoreIdle
    /\ HandlersIdle
    /\ EngineIdle
    /\ OthersIdle

otherThanGemini == <<factorVars, fetchVars, scoreVars, engineVars, storeVars, workerVars, handlerVars>>

NextGemini ==
    \/ GeminiApiCall /\ UNCHANGED otherThanGemini
    \/ \E outcome \in Outcomes : GeminiRequest(outcome) /\ UNCHANGED otherThanGemini
    \/ GeminiSleep /\ UNCHANGED otherThanGemini
    \/ GeminiReturn /\ UNCHANGED otherThanGemini

\* every request ends within its timeout and every sleep ends: the event loop
\* resumes the coroutine
SpecGemini ==
    /\ InitGemini
    /\ [][NextGemini]_vars
    /\ WF_vars(\E outcome \in Outcomes : GeminiRequest(outcome) /\ UNCHANGED otherThanGemini)
    /\ WF_vars(GeminiSleep /\ UNCHANGED otherThanGemini)

(* ------------------------------- C10 ----------------------------------- *)
IsPrefix(s, t) == Len(s) <= Len(t) /\ \A i \in 1..Len(s) : s[i] = t[i]

C10_Bounded ==
    /\ g_requests <= 3
    /\ IsPrefix(g_sleeps, <<1, 2, 4>>)
    /\ SumSeq(g_sleeps) <= 7
    /\ Len(g_sleeps) <= Len(g_log)

\* C10: a call makes at most 3 requests, its sleeps are 1, 2, 4 in this order
\* (one after each failed attempt), at most 7 in total, and every call that has
\* started returns
C10_BoundedBackoff ==
    /\ []C10_Bounded
    /\ (g_pc \in {"request", "sleep"}) ~> (g_pc = "done")

\* a call has failed three times, after a non-200 response, a transport error and
\* an unparsable body, slept 1, 2 and 4, and returned None
C10_Witness ==
    /\ g_pc = "done" /\ g_result = "None"
    /\ g_requests = 3 /\ g_sleeps = <<1, 2, 4>>
    /\ {g_log[i].what : i \in 1..Len(g_log)} = {"non200", "transport_error", "bad_body"}

(* ------------------------------- C11 ----------------------------------- *)
\* C11: a call that has ended gave its caller the parsed result or None, never
\* an exception; with a key it gave None only after three failed attempts, and
\* it gave the parsed result of the one attempt that succeeded, made right
\* after the failed ones and followed by no other attempt
C11_NoneAfterRetries ==
    /\ g_result \in {"pending", "parsed", "None"}
    /\ g_pc = "done" => g_result \in {"parsed", "None"}
    /\ (g_pc = "done" /\ g_result = "None" /\ g_key)
          => g_requests = max_retries /\ Len(g_log) = max_retries
    /\ Len(g_log) = max_retries => g_result /= "parsed"
    /\ g_result = "parsed"
          => /\ g_pc \in {"done", "idle"}
             /\ g_requests = Len(g_log) + 1
             /\ Len(g_sleeps) = Len(g_log)

\* three attempts ended in an exception of the transport and the call returned None
C11_Witness ==
    /\ g_pc = "done" /\ g_result = "None" /\ g_key
    /\ Len(g_log) = 3
    /\ \A i \in 1..Len(g_log) : g_log[i].what = "transport_error"

(* ------------------- EconomicEngine.analyze_olx_item ------------------- *)
\* rows of user_feedback present while the dispatch is exercised
MaxEngineVotes == 1

\* a title is the set of keyword phrases it contains (transliterated);
\* "word in title.lower()" is membership
Vocabulary == {"pres", "zoloto lom 585", "rolex"}
Titles == SUBSET Vocabulary
MachineryWords == {"verstat", "chpu", "pres", "instrument"}
OLX_SCRAP_QUERIES == {"zoloto lom 585", "sriblo lom 925", "zolotyi zlytok"}

\* ai_vision_result after "or {}", by the three keys the dispatch reads:
\* is_correct_type ("absent" when the key is missing, as in {}), a truthy
\* machinery_details.manufacturer, a truthy estimated_weight; other_details
\* says that machinery_details holds a key other than manufacturer (model,
\* year_of_manufacture, operating_hours, condition_rating), which the
\* dispatch does not read
AiResults == [ict : {"absent", "true", "false"}, manufacturer : BOOLEAN, other_details : BOOLEAN, estimated_weight : BOOLEAN]
EmptyDict == [ict |-> "absent", manufacturer |-> FALSE, other_details |-> FALSE, estimated_weight |-> FALSE]

\* what can go wrong inside a call besides the feedback factor: the database
\* query of _get_adaptive_system_instruction raises (vision calls only), or a
\* scoring model raises on a malformed field of the vision result
Faults == {"none", "instruction_error", "scoring_error"}

NoMultiplier == [kind |-> "absent", num |-> 0, den |-> 1]
Envelope(type, is_relevant, fm) == [type |-> type, is_relevant |-> is_relevant, feedback_multiplier |-> fm]
RejectedEnvelope == Envelope("rejected", FALSE, NoMultiplier)
Outcome(invoked, raised, envelope) == [invoked |-> invoked, raised |-> raised, envelope |-> envelope]
RaisedIn(invoked) == Outcome(invoked, TRUE, Envelope("none", FALSE, NoMultiplier))

\* ai_vision_result.get('is_correct_type', True)
GetIsCorrectType(ai) == IF ai.ict = "absent" THEN TRUE ELSE ai.ict = "true"

\* _analyze_machinery: the feedback factor is awaited first; is_relevant is the
\* margin test on simulated (random) market data, an input here
AnalyzeMachinery(olx_id, fault, rel, table) ==
    LET feedback_multiplier == GetFeedbackCorrectionFactor(table, olx_id)
    IN IF feedback_multiplier.kind /= "value" \/ fault = "scoring_error"
       THEN RaisedIn("_analyze_machinery")
       ELSE Outcome("_analyze_machinery", FALSE, Envelope("TIV", rel, feedback_multiplier))

\* _analyze_spot: no feedback factor; is_relevant is the discount test, an input here
AnalyzeSpot(fault, rel) ==
    IF fault = "scoring_error"
    THEN RaisedIn("_analyze_spot")
    ELSE Outcome("_analyze_spot", FALSE, Envelope("SPOT", rel, NoMultiplier))

\* _analyze_collectible
AnalyzeCollectible(olx_id, fault, rel, table) ==
    LET feedback_multiplier == GetFeedbackCorrectionFactor(table, olx_id)
    IN IF feedback_multiplier.kind /= "value" \/ fault = "scoring_error"
       THEN RaisedIn("_analyze_collectible")
       ELSE Outcome("_analyze_collectible", FALSE, Envelope("RAV", rel, feedback_multiplier))

IsMachinery(title) == \E word \in MachineryWords : word \in title
IsScrapOrBullion(title) == \E keyword \in OLX_SCRAP_QUERIES : keyword \in title

\* the vision result the call works with: what gemini_vision_analysis returned,
\* or {} when there is no image or the call raised before it returned
VisionResult(image, vision, fault) ==
    IF image /\ fault /= "instruction_error" THEN vision ELSE EmptyDict

\* the scoring models read the vision result with .get(key, default): on {}
\* every field is its default and no field is malformed, so a scoring model
\* can raise on a field only when the vision result holds one
FaultPossible(image, vision, fault) ==
    fault = "scoring_error" => VisionResult(image, vision, fault) /= EmptyDict

\* mutant: the SPOT branch is tested before the TIV branch
AnalyzeOlxItem_SpotFirst(olx_id, title, image, vision, fault, rel, table) ==
    LET ai == VisionResult(image, vision, fault)
    IN IF image /\ fault = "instruction_error" THEN RaisedIn("none")
       ELSE IF ~GetIsCorrectType(ai) THEN Outcome("none", FALSE, RejectedEnvelope)
       ELSE IF IsScrapOrBullion(title) \/ ai.estimated_weight THEN AnalyzeSpot(fault, rel)
       ELSE IF IsMachinery(title) \/ ai.manufacturer THEN AnalyzeMachinery(olx_id, fault, rel, table)
       ELSE AnalyzeCollectible(olx_id, fault, rel, table)

\* mutant: the is_correct_type test comes after the keyword dispatch
AnalyzeOlxItem_KeywordsFirst(olx_id, title, image, vision, fault, rel, table) ==
    LET ai == VisionResult(image, vision, fault)
    IN IF image /\ fault = "instruction_error" THEN RaisedIn("none")
       ELSE IF IsMachinery(title) THEN AnalyzeMachinery(olx_id, fault, rel, table)
       ELSE IF IsScrapOrBullion(title) THEN AnalyzeSpot(fault, rel)
       ELSE IF ~GetIsCorrectType(ai) THEN Outcome("none", FALSE, RejectedEnvelope)
       ELSE IF ai.manufacturer THEN AnalyzeMachinery(olx_id, fault, rel, table)
       ELSE IF ai.estimated_weight THEN AnalyzeSpot(fault, rel)
       ELSE AnalyzeCollectible(olx_id, fault, rel, table)

\* mutant: the spot model scales its result by the feedback factor, as the
\* other two models do
AnalyzeOlxItem_SpotWithFeedback(olx_id, title, image, vision, fault, rel, table) ==
    LET ai == VisionResult(image, vision, fault)
        feedback_multiplier == GetFeedbackCorrectionFactor(table, olx_id)
    IN IF image /\ fault = "instruction_error" THEN RaisedIn("none")
       ELSE IF ~GetIsCorrectType(ai) THEN Outcome("none", FALSE, RejectedEnvelope)
       ELSE IF IsMachinery(title) \/ ai.manufacturer THEN AnalyzeMachinery(olx_id, fault, rel, table)
       ELSE IF IsScrapOrBullion(title) \/ ai.estimated_weight
         THEN IF feedback_multiplier.kind /= "value" \/ fault = "scoring_error"
                THEN RaisedIn("_analyze_spot")
                ELSE Outcome("_analyze_spot", FALSE, Envelope("SPOT", rel, feedback_multiplier))
       ELSE AnalyzeCollectible(olx_id, fault, rel, table)

\* analyze_olx_item: vision call when there is an image, rejection on
\* is_correct_type = false, then TIV before SPOT before RAV
AnalyzeOlxItem(olx_id, title, image, vision, fault, rel, table) ==
    LET ai == VisionResult(image, vision, fault)
    IN IF image /\ fault = "instruction_error" THEN RaisedIn("none")
       ELSE IF ~GetIsCorrectType(ai) THEN Outcome("none", FALSE, RejectedEnvelope)
       ELSE IF IsMachinery(title) \/ ai.manufacturer THEN AnalyzeMachinery(olx_id, fault, rel, table)
       ELSE IF IsScrapOrBullion(title) \/ ai.estimated_weight THEN AnalyzeSpot(fault, rel)
       ELSE AnalyzeCollectible(olx_id, fault, rel, table)

Analysis(olx_id, title, ai, res) ==
    [called |-> TRUE, olx_id |-> olx_id, title |-> title, ai |-> ai,
     invoked |-> res.invoked, raised |-> res.raised, envelope |-> res.envelope]

\* one call of analyze_olx_item on any item, with the votes stored by then
AnalyzeCall(olx_id, title, image, vision, fault, rel) ==
    /\ ~last_analysis.called
    /\ FaultPossible(image, vision, fault)
    /\ last_analysis' = Analysis(olx_id, title, VisionResult(image, vision, fault),
                                 AnalyzeOlxItem(olx_id, title, image, vision, fault, rel, user_feedback))
    /\ UNCHANGED <<factorVars, geminiVars, handlerVars, scoreVars, fetchVars, storeVars, workerVars>>

\* a vote is stored
EngineVote(u, id, like) ==
    /\ BagCardinality(user_feedback) < MaxEngineVotes
    /\ FeedbackInsert(u, id, like)
    /\ UNCHANGED <<geminiVars, handlerVars, scoreVars, fetchVars, engineVars, storeVars, workerVars>>

InitEngine ==
    /\ FactorIdle
    /\ g_key = TRUE
    /\ GeminiIdle
    /\ FetchIdle
    /\ ScoreIdle
    /\ HandlersIdle
    /\ EngineIdle
    /\ OthersIdle

NextEngine ==
    \/ \E id \in OlxIds, like \in BOOLEAN : EngineVote(1, id, like)
    \/ \E id \in OlxIds, title \in Titles, image \in BOOLEAN, vision \in AiResults,
          fault \in Faults, rel \in BOOLEAN :
          AnalyzeCall(id, title, image, vision, fault, rel)

SpecEngine == InitEngine /\ [][NextEngine]_vars

(* ----------------------------- C6, C7 ---------------------------------- *)
ScoringModels == {"_analyze_machinery", "_analyze_spot", "_analyze_collectible"}

\* C6: when the vision result says is_correct_type = false, the call returns the
\* rejected envelope with is_relevant = false, for every title, and invokes no
\* scoring model
C6_RejectedNotScored ==
    (last_analysis.called /\ last_analysis.ai.ict = "false")
        => /\ last_analysis.invoked \notin ScoringModels
           /\ ~last_analysis.raised
           /\ last_analysis.envelope.type = "rejected"
           /\ ~last_analysis.envelope.is_relevant

\* a listing whose title has an equipment and a scrap keyword was rejected
C6_Witness ==
    /\ last_analysis.called /\ last_analysis.ai.ict = "false"
    /\ IsMachinery(last_analysis.title) /\ IsScrapOrBullion(last_analysis.title)
    /\ last_analysis.envelope.type = "rejected"

\* C7: a listing that is not rejected and whose title has an equipment keyword
\* and a scrap keyword goes to _analyze_machinery, never to _analyze_spot,
\* whatever the vision result holds (a call that raises before the dispatch,
\* while the vision instruction is built, invokes no model at all)
C7_EquipmentBeforeSpot ==
    (/\ last_analysis.called
     /\ GetIsCorrectType(last_analysis.ai)
     /\ IsMachinery(last_analysis.title) /\ IsScrapOrBullion(last_analysis.title))
        => \/ last_analysis.invoked = "_analyze_machinery"
           \/ last_analysis.invoked = "none" /\ last_analysis.raised

\* such a listing, with a vision result that reports a weight, got a TIV envelope
C7_Witness ==
    /\ last_analysis.called
    /\ IsMachinery(last_analysis.title) /\ IsScrapOrBullion(last_analysis.title)
    /\ last_analysis.ai.estimated_weight
    /\ last_analysis.invoked = "_analyze_machinery"
    /\ last_analysis.envelope.type = "TIV"

(* ----------------------------- C21, C24 -------------------------------- *)
\* C21: when the classifier yields no result (the vision result is {}) and the
\* call did not raise before the dispatch, one scoring model is invoked and it
\* returns a scored envelope: the call does not raise
C21_NoResultStillScored ==
    (/\ last_analysis.called
     /\ last_analysis.ai = EmptyDict
     /\ ~(last_analysis.invoked = "none" /\ last_analysis.raised))
        => /\ last_analysis.invoked \in ScoringModels
           /\ ~last_analysis.raised

\* C24: a listing that is not rejected and whose vision result holds equipment
\* details (a manufacturer or any other key of machinery_details) goes to
\* _analyze_machinery even when its title has no equipment keyword
C24_DetailsRouteToEquipment ==
    (/\ last_analysis.called
     /\ GetIsCorrectType(last_analysis.ai)
     /\ last_analysis.ai.manufacturer \/ last_analysis.ai.other_details
     /\ ~IsMachinery(last_analysis.title))
        => last_analysis.invoked = "_analyze_machinery"

(* ------------------------------ olx_posts ------------------------------ *)
\* polling cycles the model follows
MaxCycles == 2
\* EconomicConfig.OLX_PRICE_FILTER
OLX_PRICE_FILTER == 20000

\* the listings of the marketplace: the title of listing id, by id modulo 4
\* (both kinds of keyword, a scrap phrase, neither, an equipment word)
TitleOf(id) ==
    CASE id % 4 = 1 -> {"pres", "zoloto lom 585"}
      [] id % 4 = 2 -> {"zoloto lom 585"}
      [] id % 4 = 3 -> {"rolex"}
      [] OTHER -> {"pres"}

\* the worker's except branch: type "Помилка Аналізу"
ErrorEnvelope == Envelope("error", FALSE, NoMultiplier)

Row(olx_id, title, price, published_at, envelope) ==
    [olx_id |-> olx_id, title |-> title, price |-> price, published_at |-> published_at,
     ai_analysis_json |-> envelope, is_relevant |-> envelope.is_relevant]

HasRow(table, olx_id) == \E i \in DOMAIN table : table[i].olx_id = olx_id

\* mutant: a plain INSERT into a table without the UNIQUE constraint
InsertPost_Append(table, row) == Append(table, row)

\* INSERT INTO olx_posts (...) VALUES (...) ON CONFLICT (olx_id) DO NOTHING,
\* olx_id being UNIQUE
InsertPost(table, row) ==
    IF HasRow(table, row.olx_id) THEN table ELSE Append(table, row)

\* the command tag of the statement
InsertStatus(before, after) ==
    IF Len(after) > Len(before) THEN "INSERT 0 1" ELSE "INSERT 0 0"

\* envelopes a writer can hand to the statement
StoredEnvelopes ==
    {ErrorEnvelope, RejectedEnvelope, Envelope("SPOT", TRUE, NoMultiplier), Envelope("SPOT", FALSE, NoMultiplier)}

\* a writer executes the statement for any listing
DbInsert(olx_id, published_at, envelope) ==
    /\ olx_posts' = InsertPost(olx_posts, Row(olx_id, TitleOf(olx_id), OLX_PRICE_FILTER, published_at, envelope))
    /\ db_status' = InsertStatus(olx_posts, olx_posts')
    /\ UNCHANGED <<factorVars, geminiVars, handlerVars, scoreVars, fetchVars, engineVars, workerVars>>

InitDedup ==
    /\ FactorIdle
    /\ g_key = TRUE
    /\ GeminiIdle
    /\ FetchIdle
    /\ ScoreIdle
    /\ HandlersIdle
    /\ EngineIdle
    /\ OthersIdle

NextDedup ==
    \E olx_id \in OlxIds, published_at \in 1..MaxCycles, envelope \in StoredEnvelopes :
        DbInsert(olx_id, published_at, envelope)

SpecDedup == InitDedup /\ [][NextDedup]_vars

(* -------------------------------- C1 ----------------------------------- *)
RowsOf(table, olx_id) == {i \in DOMAIN table : table[i].olx_id = olx_id}

\* C1: after every insert olx_posts holds at most one row per olx_id, the rows
\* it held are still there unchanged, and an insert for an olx_id that has a row
\* changes nothing
C1_InsertIfAbsent ==
    [][/\ \A id \in OlxIds : Cardinality(RowsOf(olx_posts', id)) <= 1
       /\ Len(olx_posts') >= Len(olx_posts)
       /\ \A i \in DOMAIN olx_posts : olx_posts'[i] = olx_posts[i]
       /\ (\E id \in OlxIds : RowsOf(olx_posts, id) /= {} /\ db_status' = "INSERT 0 0")
              => olx_posts' = olx_posts]_vars

\* the statement ran for a listing that had a row, and the table holds one row
\* for each of two listings
C1_Witness ==
    /\ db_status = "INSERT 0 0"
    /\ Len(olx_posts) = 2
    /\ \A id \in {1, 2} : Cardinality(RowsOf(olx_posts, id)) = 1

(* -------------------- fetch_olx_data, monitoring_worker ---------------- *)
\* cards on one result page
MaxCards == 1

\* one search phrase of each of the two configured lists, in the order of
\* search_queries = OLX_SEARCH_QUERIES + OLX_SCRAP_QUERIES
SearchQueries == <<"rolex", "zoloto lom 585">>

\* the cards a result page can show: a card without a listing link or without
\* -ID<digits>.html in it (olx_id 0), listing 1 priced below the floor, and each
\* listing priced at the floor
NoIdCard == [olx_id |-> 0, price |-> OLX_PRICE_FILTER]
CheapCard == [olx_id |-> 1, price |-> OLX_PRICE_FILTER - 1]
Cards == {NoIdCard, CheapCard} \cup {[olx_id |-> id, price |-> OLX_PRICE_FILTER] : id \in OlxIds}
SeqsUpTo(S, n) == UNION {[1..k -> S] : k \in 0..n}
\* what one request returns: a failure (timeout, HTTP error), or a page
Pages == {[ok |-> FALSE, cards |-> <<>>]} \cup {[ok |-> TRUE, cards |-> c] : c \in SeqsUpTo(Cards, MaxCards)}

Post(card) == [olx_id |-> card.olx_id, title |-> TitleOf(card.olx_id), price |-> card.price]

RECURSIVE SelectCards(_, _)
SelectCards(cards, existing_ids) ==
    IF cards = <<>> THEN <<>>
    ELSE LET card == Head(cards)
             rest == SelectCards(Tail(cards), existing_ids)
         IN IF card.olx_id = 0 \/ card.olx_id \in existing_ids THEN rest
            ELSE IF card.price < OLX_PRICE_FILTER THEN rest
            ELSE <<Post(card)>> \o rest

\* mutant: existing_ids is not consulted
FetchSingleQuery_NoExclude(page, existing_ids) ==
    IF ~page.ok THEN <<>> ELSE SelectCards(page.cards, {})

\* _fetch_single_query: [] when the request fails; else the cards that have an
\* id not in existing_ids and a price not below the floor
FetchSingleQuery(page, existing_ids) ==
    IF ~page.ok THEN <<>> ELSE SelectCards(page.cards, existing_ids)

RECURSIVE GatherAll(_, _, _)
GatherAll(results, existing_ids, k) ==
    IF k > Len(SearchQueries) THEN <<>>
    ELSE FetchSingleQuery(results[k], existing_ids) \o GatherAll(results, existing_ids, k + 1)

\* list({post['olx_id']: post for post in all_new_posts}.values()): a key keeps
\* the place of its first post and the value of its last
RECURSIVE UniqueById(_, _)
UniqueById(posts, done) ==
    IF posts = <<>> THEN <<>>
    ELSE LET post == Head(posts)
             same == {i \in DOMAIN posts : posts[i].olx_id = post.olx_id}
             last == CHOOSE i \in same : \A j \in same : j <= i
         IN IF post.olx_id \in done THEN UniqueById(Tail(posts), done)
            ELSE <<posts[last]>> \o UniqueById(Tail(posts), done \cup {post.olx_id})

\* SELECT array_agg(olx_id) FROM olx_posts ... or []
ExistingIds(table) == {table[i].olx_id : i \in DOMAIN table}

\* mutant: the exception of a failed request is not caught in
\* _fetch_single_query, asyncio.gather raises it and no list is returned
FetchOlxData_FailFast(table, results) ==
    IF \E k \in DOMAIN results : ~results[k].ok THEN <<>>
    ELSE UniqueById(GatherAll(results, ExistingIds(table), 1), {})

\* fetch_olx_data
FetchOlxData(table, results) == UniqueById(GatherAll(results, ExistingIds(table), 1), {})

\* the statements of the body of "for post in new_posts", in order; "send" and
\* "pause" (asyncio.sleep(5)) run only if is_relevant and CHANNEL_ID
PostSteps_SendFirst == <<"analyze", "send", "pause", "insert">>
PostSteps == <<"analyze", "insert", "send", "pause">>

\* the next statement of the body after statement k, 0 when the body is done
RECURSIVE NextStepIndex(_, _)
NextStepIndex(k, publish) ==
    IF k + 1 > Len(PostSteps) THEN 0
    ELSE IF PostSteps[k + 1] \in {"send", "pause"} /\ ~publish THEN NextStepIndex(k + 1, publish)
    ELSE k + 1

AtStep(name) == w_pc = "post" /\ w_step \in DOMAIN PostSteps /\ PostSteps[w_step] = name

\* control after statement w_step of the body: the next statement, the next
\* post, or the RSS part of the cycle
Proceed(publish) ==
    LET k == NextStepIndex(w_step, publish)
    IN IF k /= 0 THEN w_pc' = "post" /\ w_step' = k /\ w_i' = w_i
       ELSE IF w_i < Len(new_posts) THEN w_pc' = "post" /\ w_step' = 1 /\ w_i' = w_i + 1
       ELSE w_pc' = "rss" /\ w_step' = 0 /\ w_i' = w_i

\* the cycle is over and the worker is in asyncio.sleep(interval): the locals of
\* the cycle are dead (each is assigned again before it is read) and are cleared
ClearLocals ==
    /\ w_pc' = "sleep"
    /\ w_step' = 0
    /\ w_i' = 0
    /\ new_posts' = <<>>
    /\ w_seen' = {}
    /\ ai_result' = NoAnalysis.envelope

\* the cycle ends with no call of analyze_olx_item in progress
EndCycle ==
    /\ ClearLocals
    /\ last_analysis' = NoAnalysis

\* the outer "except Exception": the rest of the cycle is dropped
AbortCycle == EndCycle

\* asyncio.sleep(interval) is over: new_posts = await fetch_olx_data(session, pool)
WorkerFetch(results) ==
    /\ w_pc = "sleep"
    /\ w_cycle < MaxCycles
    /\ w_cycle' = w_cycle + 1
    /\ w_seen' = ExistingIds(olx_posts) \cap
                    UNION {{results[k].cards[i].olx_id : i \in DOMAIN results[k].cards} : k \in DOMAIN results}
    /\ new_posts' = FetchOlxData(olx_posts, results)
    /\ IF new_posts' = <<>>
         THEN w_pc' = "rss" /\ w_i' = 0 /\ w_step' = 0
         ELSE w_pc' = "post" /\ w_i' = 1 /\ w_step' = 1
    /\ UNCHANGED <<channel_set, ai_result, analyzed, send_calls, channel>>
    /\ UNCHANGED <<factorVars, geminiVars, handlerVars, scoreVars, fetchVars, engineVars, storeVars>>

\* asyncio.sleep(interval) is over and fetch_olx_data raises: its read of the
\* recorded ids (pool.acquire, conn.fetchval) is not inside a try of its own
WorkerFetchFailed ==
    /\ w_pc = "sleep"
    /\ w_cycle < MaxCycles
    /\ w_cycle' = w_cycle + 1
    /\ AbortCycle
    /\ UNCHANGED <<channel_set, analyzed, send_calls, channel>>
    /\ UNCHANGED <<factorVars, geminiVars, handlerVars, scoreVars, fetchVars, storeVars>>

\* mutant: no try/except around analyze_olx_item, an exception reaches the outer except
WorkerAnalyze_NoCatch(image, vision, fault, rel) ==
    /\ AtStep("analyze")
    /\ FaultPossible(image, vision, fault)
    /\ LET post == new_posts[w_i]
           res == AnalyzeOlxItem(post.olx_id, post.title, image, vision, fault, rel, user_feedback)
       IN /\ last_analysis' = Analysis(post.olx_id, post.title, VisionResult(image, vision, fault), res)
          /\ analyzed' = [analyzed EXCEPT ![post.olx_id] = @ + 1]
          /\ IF res.raised
               THEN ClearLocals
               ELSE /\ ai_result' = res.envelope
                    /\ Proceed(res.envelope.is_relevant /\ channel_set)
                    /\ UNCHANGED <<new_posts, w_seen>>
    /\ UNCHANGED <<channel_set, w_cycle, send_calls, channel>>
    /\ UNCHANGED <<factorVars, geminiVars, handlerVars, scoreVars, fetchVars, storeVars>>

\* try: ai_result = await economic_engine.analyze_olx_item(...)
\* except Exception: ai_result = the "analysis error" envelope
WorkerAnalyze(image, vision, fault, rel) ==
    /\ AtStep("analyze")
    /\ FaultPossible(image, vision, fault)
    /\ LET post == new_posts[w_i]
           res == AnalyzeOlxItem(post.olx_id, post.title, image, vision, fault, rel, user_feedback)
       IN /\ last_analysis' = Analysis(post.olx_id, post.title, VisionResult(image, vision, fault), res)
          /\ analyzed' = [analyzed EXCEPT ![post.olx_id] = @ + 1]
          /\ ai_result' = IF res.raised THEN ErrorEnvelope ELSE res.envelope
          /\ Proceed(ai_result'.is_relevant /\ channel_set)
    /\ UNCHANGED <<channel_set, w_cycle, w_seen, new_posts, send_calls, channel>>
    /\ UNCHANGED <<factorVars, geminiVars, handlerVars, scoreVars, fetchVars, storeVars>>

\* mutant: a listing whose evaluation raised is not recorded
WorkerInsert_SkipErrors(db_ok) ==
    /\ AtStep("insert")
    /\ IF db_ok
         THEN LET post == new_posts[w_i]
              IN /\ olx_posts' = IF ai_result = ErrorEnvelope THEN olx_posts
                                  ELSE InsertPost(olx_posts, Row(post.olx_id, post.title, post.price, w_cycle, ai_result))
                 /\ db_status' = InsertStatus(olx_posts, olx_posts')
                 /\ Proceed(ai_result.is_relevant /\ channel_set)
                 /\ UNCHANGED <<new_posts, w_seen, ai_result, engineVars>>
         ELSE AbortCycle /\ UNCHANGED storeVars
    /\ UNCHANGED <<channel_set, w_cycle, analyzed, send_calls, channel>>
    /\ UNCHANGED <<factorVars, geminiVars, handlerVars, scoreVars, fetchVars>>

\* await conn.execute("INSERT INTO olx_posts ... ON CONFLICT (olx_id) DO NOTHING");
\* an exception of the database reaches the outer except
WorkerInsert(db_ok) ==
    /\ AtStep("insert")
    /\ IF db_ok
         THEN LET post == new_posts[w_i]
              IN /\ olx_posts' = InsertPost(olx_posts, Row(post.olx_id, post.title, post.price, w_cycle, ai_result))
                 /\ db_status' = InsertStatus(olx_posts, olx_posts')
                 /\ Proceed(ai_result.is_relevant /\ channel_set)
                 /\ UNCHANGED <<new_posts, w_seen, ai_result, engineVars>>
         ELSE AbortCycle /\ UNCHANGED storeVars
    /\ UNCHANGED <<channel_set, w_cycle, analyzed, send_calls, channel>>
    /\ UNCHANGED <<factorVars, geminiVars, handlerVars, scoreVars, fetchVars>>

\* mutant: send_olx_post has no try/except, the Telegram error reaches the
\* outer except of the worker
WorkerSend_NoCatch(delivered) ==
    /\ AtStep("send")
    /\ LET post == new_posts[w_i]
       IN /\ send_calls' = [send_calls EXCEPT ![post.olx_id] = @ + 1]
          /\ channel' = IF delivered THEN channel \cup {post.olx_id} ELSE channel
    /\ IF delivered
         THEN Proceed(TRUE) /\ UNCHANGED <<w_seen, new_posts, ai_result, engineVars>>
         ELSE AbortCycle
    /\ UNCHANGED <<channel_set, w_cycle, analyzed>>
    /\ UNCHANGED <<factorVars, geminiVars, handlerVars, scoreVars, fetchVars, storeVars>>

\* await send_olx_post(bot, post, ai_result): the Telegram error is caught and
\* logged inside, the result is not looked at
WorkerSend(delivered) ==
    /\ AtStep("send")
    /\ LET post == new_posts[w_i]
       IN /\ send_calls' = [send_calls EXCEPT ![post.olx_id] = @ + 1]
          /\ channel' = IF delivered THEN channel \cup {post.olx_id} ELSE channel
    /\ Proceed(TRUE)
    /\ UNCHANGED <<channel_set, w_cycle, w_seen, new_posts, ai_result, analyzed>>
    /\ UNCHANGED <<factorVars, geminiVars, handlerVars, scoreVars, fetchVars, engineVars, storeVars>>

\* await asyncio.sleep(5)
WorkerPause ==
    /\ AtStep("pause")
    /\ Proceed(TRUE)
    /\ UNCHANGED <<channel_set, w_cycle, w_seen, new_posts, ai_result, analyzed, send_calls, channel>>
    /\ UNCHANGED <<factorVars, geminiVars, handlerVars, scoreVars, fetchVars, engineVars, storeVars>>

\* mutant: the body of the loop has no "except Exception": an error in the
\* RSS part ends the worker task
WorkerRss_NoOuterCatch(ok) ==
    /\ w_pc = "rss"
    /\ IF ok THEN EndCycle
             ELSE /\ w_pc' = "stopped"
                  /\ UNCHANGED <<w_step, w_i, new_posts, w_seen, ai_result, last_analysis>>
    /\ UNCHANGED <<channel_set, w_cycle, analyzed, send_calls, channel>>
    /\ UNCHANGED <<factorVars, geminiVars, handlerVars, scoreVars, fetchVars, storeVars>>

\* the RSS part of the cycle: fetch_page_content catches its errors, an error of
\* bot.send_message reaches the outer except; then asyncio.sleep(interval)
WorkerRss(ok) ==
    /\ w_pc = "rss"
    /\ IF ok THEN EndCycle ELSE AbortCycle
    /\ UNCHANGED <<channel_set, w_cycle, analyzed, send_calls, channel>>
    /\ UNCHANGED <<factorVars, geminiVars, handlerVars, scoreVars, fetchVars, storeVars>>

\* what the worker's call of analyze_olx_item can meet: a listing without an
\* image (no vision call), or with one and a vision result that has every field
\* the scoring models read and any verdict on the item type
VisionInputs ==
    {<<FALSE, EmptyDict>>} \cup
    {<<TRUE, v>> : v \in {a \in AiResults : a.manufacturer /\ ~a.other_details /\ a.estimated_weight}}

Init ==
    /\ FactorIdle
    /\ g_key = TRUE
    /\ GeminiIdle
    /\ FetchIdle
    /\ ScoreIdle
    /\ HandlersIdle
    /\ EngineIdle
    /\ StoreIdle
    /\ channel_set \in BOOLEAN
    /\ WorkerIdle

Next ==
    \/ \E results \in [DOMAIN SearchQueries -> Pages] : WorkerFetch(results)
    \/ WorkerFetchFailed
    \/ \E in \in VisionInputs, fault \in Faults, rel \in BOOLEAN :
          WorkerAnalyze(in[1], in[2], fault, rel)
    \/ \E db_ok \in BOOLEAN : WorkerInsert(db_ok)
    \/ \E delivered \in BOOLEAN : WorkerSend(delivered)
    \/ WorkerPause
    \/ \E ok \in BOOLEAN : WorkerRss(ok)

Spec == Init /\ [][Next]_vars

\* pages for the runs in which progress is followed: a failed request, or a
\* page with one listing at the floor price
LivePages == {pg \in Pages : Len(pg.cards) <= 1 /\ \A i \in DOMAIN pg.cards : pg.cards[i].price = OLX_PRICE_FILTER /\ pg.cards[i].olx_id \in OlxIds}

NextLive ==
    \/ \E results \in [DOMAIN SearchQueries -> LivePages] : WorkerFetch(results)
    \/ WorkerFetchFailed
    \/ \E in \in VisionInputs, fault \in Faults, rel \in BOOLEAN :
          WorkerAnalyze(in[1], in[2], fault, rel)
    \/ \E db_ok \in BOOLEAN : WorkerInsert(db_ok)
    \/ \E delivered \in BOOLEAN : WorkerSend(delivered)
    \/ WorkerPause
    \/ \E ok \in BOOLEAN : WorkerRss(ok)

\* the worker under the scheduling of the event loop: every await of the loop
\* (the sleep, a request with its timeout, a database statement, a send)
\* returns or raises, so the step that is enabled is eventually taken
SpecLive == Init /\ [][NextLive]_vars /\ WF_vars(NextLive)

(* ---------------------------- C2, C8, C9 ------------------------------- *)
\* the listing has a row that an earlier cycle than cycle c inserted
RowBefore(table, olx_id, c) ==
    \E i \in DOMAIN table : table[i].olx_id = olx_id /\ table[i].published_at < c

\* C2: a listing with a row of an earlier cycle is not in new_posts, and no step
\* calls analyze_olx_item or send_olx_post for it
C2_NoReprocessing ==
    [][\A id \in OlxIds :
          RowBefore(olx_posts, id, w_cycle')
              => /\ analyzed'[id] = analyzed[id]
                 /\ send_calls'[id] = send_calls[id]
                 /\ \A i \in DOMAIN new_posts' : new_posts'[i].olx_id /= id]_vars

\* the listings of the second cycle are done; its pages showed a listing that the first cycle had
\* scored, recorded and published, and it was scored and published once
C2_Witness ==
    \E id \in OlxIds :
        /\ w_cycle = 2 /\ w_pc = "rss"
        /\ id \in w_seen
        /\ RowBefore(olx_posts, id, 2)
        /\ analyzed[id] = 1 /\ send_calls[id] = 1

\* C8: when analyze_olx_item raises, ai_result is the analysis-error envelope
\* with is_relevant = false, the worker goes on to the insert of that listing
\* with new_posts intact, and after the row of an error envelope is written the
\* next listing of the cycle is evaluated
C8_ErrorEnvelopeAndContinue ==
    [][/\ (AtStep("analyze") /\ analyzed' /= analyzed /\ last_analysis'.raised)
            => /\ ai_result' = ErrorEnvelope
               /\ ~ai_result'.is_relevant
               /\ new_posts' = new_posts /\ w_i' = w_i
               /\ w_pc' = "post" /\ PostSteps[w_step'] = "insert"
       /\ (AtStep("insert") /\ ai_result = ErrorEnvelope /\ olx_posts' /= olx_posts)
            => /\ olx_posts'[Len(olx_posts')].olx_id = new_posts[w_i].olx_id
               /\ olx_posts'[Len(olx_posts')].ai_analysis_json = ErrorEnvelope
               /\ ~olx_posts'[Len(olx_posts')].is_relevant
               /\ new_posts' = new_posts
               /\ w_i < Len(new_posts)
                    => w_pc' = "post" /\ w_i' = w_i + 1 /\ PostSteps[w_step'] = "analyze"]_vars

\* the first listing of a cycle raised and has its error row; the second listing
\* of the same cycle was evaluated without an exception and has its row too
C8_Witness ==
    /\ Len(olx_posts) = 2
    /\ olx_posts[1].ai_analysis_json = ErrorEnvelope
    /\ olx_posts[2].published_at = olx_posts[1].published_at
    /\ olx_posts[2].ai_analysis_json.type = "SPOT"
    /\ last_analysis.olx_id = olx_posts[2].olx_id /\ ~last_analysis.raised

\* C9: a listing for which send_olx_post is being or has been called, or whose
\* post is in the channel, has its row in olx_posts
C9_RecordedBeforePublished ==
    \A id \in OlxIds :
        (\/ send_calls[id] > 0
         \/ id \in channel
         \/ AtStep("send") /\ new_posts[w_i].olx_id = id)
            => HasRow(olx_posts, id)

\* a relevant listing is recorded and its post is in the channel
C9_Witness ==
    \E id \in OlxIds :
        /\ id \in channel /\ send_calls[id] = 1
        /\ \E i \in DOMAIN olx_posts : olx_posts[i].olx_id = id /\ olx_posts[i].is_relevant
(* ------------------------------- C20 ----------------------------------- *)
\* C20: when send_olx_post fails for a listing, its row stays in olx_posts and
\* the worker goes on with the pause and then the next listing of the cycle;
\* no row is ever removed, and send_olx_post is called at most once per
\* listing over all cycles
C20_PublishFailureNoRetry ==
    /\ [](\A id \in OlxIds : send_calls[id] <= 1)
    /\ [][/\ \A id \in OlxIds : HasRow(olx_posts, id) => HasRow(olx_posts', id)
          /\ (AtStep("send") /\ send_calls' /= send_calls /\ channel' = channel)
               => /\ HasRow(olx_posts', new_posts[w_i].olx_id)
                  /\ new_posts' = new_posts /\ w_i' = w_i
                  /\ w_pc' = "post" /\ PostSteps[w_step'] = "pause"
          /\ (AtStep("pause") /\ w_i < Len(new_posts))
               => /\ new_posts' = new_posts /\ w_i' = w_i + 1
                  /\ w_pc' = "post" /\ PostSteps[w_step'] = "analyze"]_vars

\* the send of a relevant listing failed in the first cycle; the pages of the
\* second cycle showed the listing again and it was not sent again
C20_Witness ==
    \E id \in OlxIds :
        /\ send_calls[id] = 1 /\ id \notin channel
        /\ RowBefore(olx_posts, id, 2)
        /\ w_cycle = 2 /\ w_pc = "rss" /\ id \in w_seen

(* ------------------------------- C26 ----------------------------------- *)
HasErrorRow(table, olx_id) ==
    \E i \in DOMAIN table : /\ table[i].olx_id = olx_id
                            /\ table[i].ai_analysis_json = ErrorEnvelope
                            /\ ~table[i].is_relevant

\* C26: the insert that follows an evaluation that raised records the listing
\* with the error envelope and is_relevant = false (unless the statement itself
\* raises, which ends the cycle with the table as it was); a listing that has
\* such a row is in no new_posts of a later cycle, and no step evaluates it,
\* sends it or delivers it to the channel
C26_ErrorRowNeverRetried ==
    [][/\ (AtStep("insert") /\ ai_result = ErrorEnvelope)
            => \/ HasErrorRow(olx_posts', new_posts[w_i].olx_id)
               \/ w_pc' = "sleep" /\ olx_posts' = olx_posts
       /\ \A id \in OlxIds :
             HasErrorRow(olx_posts, id)
                => /\ analyzed'[id] = analyzed[id]
                   /\ send_calls'[id] = send_calls[id] /\ send_calls[id] = 0
                   /\ id \notin channel'
                   /\ w_cycle' /= w_cycle => \A i \in DOMAIN new_posts' : new_posts'[i].olx_id /= id]_vars

\* the evaluation of a listing raised in the first cycle and its error row was
\* written; the pages of the second cycle showed the listing again, the cycle
\* handled its listings, and the listing was evaluated once and never sent
C26_Witness ==
    \E id \in OlxIds :
        /\ HasErrorRow(olx_posts, id) /\ RowBefore(olx_posts, id, 2)
        /\ w_cycle = 2 /\ w_pc = "rss" /\ id \in w_seen
        /\ analyzed[id] = 1 /\ send_calls[id] = 0 /\ id \notin channel

MaxCallbackVotes == 2

\* listings whose post carries the feedback keyboard: send_olx_post attaches it
\* to every post it sends, and the worker sends what the spot model found
\* relevant (the other two models raise on a listing without votes)
PublishedIds == {id \in OlxIds : IsScrapOrBullion(TitleOf(id)) /\ ~IsMachinery(TitleOf(id))}
NthPublished(i) == CHOOSE id \in PublishedIds : Cardinality({j \in PublishedIds : j < id}) = i - 1

\* mutant: the UPDATE without its WHERE clause
UpdateMultiplier_AllRows(table, olx_id, factor) ==
    [i \in DOMAIN table |-> [table[i] EXCEPT !.ai_analysis_json.feedback_multiplier = factor]]

\* UPDATE olx_posts SET ai_analysis_json = jsonb_set(ai_analysis_json,
\* '{feedback_multiplier}', $1::jsonb) WHERE olx_id = $2
UpdateMultiplier(table, olx_id, factor) ==
    [i \in DOMAIN table |->
        IF table[i].olx_id = olx_id
          THEN [table[i] EXCEPT !.ai_analysis_json.feedback_multiplier = factor]
          ELSE table[i]]

\* a button of the post of listing id is pressed: the handler starts and
\* awaits INSERT INTO user_feedback (user_id, olx_id, is_like); an exception
\* of the database goes to the handler's except branch, which answers
\* "Помилка обробки відгуку."
CallbackInsert(c, u, id, like, db_ok) ==
    /\ callbacks[c].pc \in {"idle", "done", "failed"}
    /\ BagCardinality(user_feedback) < MaxCallbackVotes
    /\ user_feedback' = IF db_ok
                          THEN user_feedback (+) SetToBag({[user_id |-> u, olx_id |-> id, is_like |-> like]})
                          ELSE user_feedback
    /\ callbacks' = [callbacks EXCEPT ![c] =
                       IF db_ok
                         THEN [IdleCallback EXCEPT !.pc = "inserted", !.olx_id = id, !.stored = TRUE]
                         ELSE Ended("failed", FALSE, FALSE, "error")]
    /\ UNCHANGED <<fcf, storeVars>>

\* correction_factor = await _get_feedback_correction_factor(pool, olx_id); an
\* exception goes to the handler's except branch
CallbackFactor(c) ==
    /\ callbacks[c].pc = "inserted"
    /\ LET res == GetFeedbackCorrectionFactor(user_feedback, callbacks[c].olx_id)
       IN callbacks' = [callbacks EXCEPT ![c] =
                          IF res.kind = "value"
                            THEN [@ EXCEPT !.pc = "computed", !.correction_factor = res]
                            ELSE Ended("failed", TRUE, FALSE, "error")]
    /\ UNCHANGED <<user_feedback, fcf, storeVars>>

\* await conn.execute(UPDATE olx_posts ...), the last statement inside
\* "async with pool.acquire()"; an exception goes to the except branch
CallbackUpdate(c, db_ok) ==
    /\ callbacks[c].pc = "computed"
    /\ olx_posts' = IF db_ok
                      THEN UpdateMultiplier(olx_posts, callbacks[c].olx_id, callbacks[c].correction_factor)
                      ELSE olx_posts
    /\ callbacks' = [callbacks EXCEPT ![c] =
                       IF db_ok
                         THEN [@ EXCEPT !.pc = "updated", !.written = TRUE]
                         ELSE Ended("failed", TRUE, FALSE, "error")]
    /\ UNCHANGED <<user_feedback, fcf, db_status>>

\* mutant: the success answer is sent as soon as the vote is stored
CallbackAnswer_Early(c) ==
    /\ callbacks[c].pc \in {"inserted", "updated"}
    /\ callbacks' = [callbacks EXCEPT ![c] =
                       IF callbacks[c].pc = "updated"
                         THEN Ended("done", TRUE, TRUE, "success")
                         ELSE [@ EXCEPT !.answer = "success"]]
    /\ UNCHANGED <<user_feedback, fcf, storeVars>>

\* after the "async with" block: await callback_query.answer("Дякуємо за
\* відгук! ... Коефіцієнт навчання оновлено!"), then the keyboard is removed
CallbackAnswer(c) ==
    /\ callbacks[c].pc = "updated"
    /\ callbacks' = [callbacks EXCEPT ![c] = Ended("done", callbacks[c].stored, callbacks[c].written, "success")]
    /\ UNCHANGED <<user_feedback, fcf, storeVars>>

\* the worker has recorded and published the listings of PublishedIds
InitFeedback ==
    /\ FactorIdle
    /\ g_key = TRUE
    /\ GeminiIdle
    /\ FetchIdle
    /\ ScoreIdle
    /\ HandlersIdle
    /\ EngineIdle
    /\ olx_posts = [i \in 1..Cardinality(PublishedIds) |->
                       Row(NthPublished(i), TitleOf(NthPublished(i)), OLX_PRICE_FILTER, 1,
                           Envelope("SPOT", TRUE, NoMultiplier))]
    /\ db_status = "INSERT 0 1"
    /\ channel_set = TRUE
    /\ WorkerIdle

NextFeedback ==
    \/ \E c \in Callbacks, u \in Users, id \in PublishedIds, like \in BOOLEAN, db_ok \in BOOLEAN :
          CallbackInsert(c, u, id, like, db_ok) /\ UNCHANGED <<geminiVars, handlerVars, scoreVars, fetchVars, engineVars, workerVars>>
    \/ \E c \in Callbacks : CallbackFactor(c) /\ UNCHANGED <<geminiVars, handlerVars, scoreVars, fetchVars, engineVars, workerVars>>
    \/ \E c \in Callbacks, db_ok \in BOOLEAN :
          CallbackUpdate(c, db_ok) /\ UNCHANGED <<geminiVars, handlerVars, scoreVars, fetchVars, engineVars, workerVars>>
    \/ \E c \in Callbacks : CallbackAnswer(c) /\ UNCHANGED <<geminiVars, handlerVars, scoreVars, fetchVars, engineVars, workerVars>>

SpecFeedback == InitFeedback /\ [][NextFeedback]_vars

(* ------------------------------- C12 ----------------------------------- *)
RatEq(a, b) == a.num * b.den = b.num * a.den

StoredMultiplier(table, olx_id) ==
    LET i == CHOOSE k \in DOMAIN table : table[k].olx_id = olx_id
    IN table[i].ai_analysis_json.feedback_multiplier

\* C12: when no feedback callback is in progress, the feedback_multiplier
\* stored with a listing that has votes is the correction factor of all the
\* votes recorded for that listing
C12_StoredFactorCurrent ==
    (\A c \in Callbacks : callbacks[c].pc \in {"idle", "done"})
        => \A id \in PublishedIds :
              GetFeedbackCorrectionFactor(user_feedback, id).kind = "value"
                 => /\ StoredMultiplier(olx_posts, id).kind = "value"
                    /\ RatEq(StoredMultiplier(olx_posts, id),
                             GetFeedbackCorrectionFactor(user_feedback, id))

(* ---------- olx_posts under votes and further recorded listings -------- *)
\* one user presses the buttons of the published posts while the worker goes
\* on recording listings (here: listings whose evaluation raised)
NextStore ==
    \/ \E c \in Callbacks, id \in PublishedIds, like \in BOOLEAN, db_ok \in BOOLEAN :
          CallbackInsert(c, 1, id, like, db_ok) /\ UNCHANGED <<geminiVars, handlerVars, scoreVars, fetchVars, engineVars, workerVars>>
    \/ \E c \in Callbacks : CallbackFactor(c) /\ UNCHANGED <<geminiVars, handlerVars, scoreVars, fetchVars, engineVars, workerVars>>
    \/ \E c \in Callbacks, db_ok \in BOOLEAN :
          CallbackUpdate(c, db_ok) /\ UNCHANGED <<geminiVars, handlerVars, scoreVars, fetchVars, engineVars, workerVars>>
    \/ \E c \in Callbacks : CallbackAnswer(c) /\ UNCHANGED <<geminiVars, handlerVars, scoreVars, fetchVars, engineVars, workerVars>>
    \/ \E id \in OlxIds : DbInsert(id, MaxCycles, ErrorEnvelope)

SpecStore == InitFeedback /\ [][NextStore]_vars

(* --------------------------- /admin_status ----------------------------- *)
\* the user id configured as ADMIN_ID
ADMIN_ID == 1

\* SELECT COUNT(*) FROM user_feedback WHERE is_like = flag
CountFeedback(table, flag) == SumOver(BagToSet(table), table, flag)

\* SELECT AVG((ai_analysis_json->>'feedback_multiplier')::float) FROM olx_posts
\* WHERE ai_analysis_json ? 'feedback_multiplier': NULL (None) when no row has
\* the key; the handler only formats the value
AvgIsNull(table) ==
    \A i \in DOMAIN table : table[i].ai_analysis_json.feedback_multiplier.kind = "absent"

\* command_admin_status_handler: a sender other than ADMIN_ID gets the refusal
\* before anything is read; for the admin seven aggregates are read, the status
\* text is built with f"{avg_correction_factor:.3f}", which raises TypeError on
\* None, and the text is sent
AdminStatus(user) ==
    /\ admin_status' =
          IF user /= ADMIN_ID
            THEN [NoStatus EXCEPT !.asked = TRUE, !.user = user, !.kind = "denied"]
          ELSE IF AvgIsNull(olx_posts)
            THEN [NoStatus EXCEPT !.asked = TRUE, !.user = user, !.kind = "raised", !.reads = 7]
          ELSE [asked |-> TRUE, user |-> user, kind |-> "status", reads |-> 7,
                total_posts |-> Len(olx_posts),
                relevant_posts |-> Cardinality({i \in DOMAIN olx_posts : olx_posts[i].is_relevant}),
                feedback_like |-> CountFeedback(user_feedback, TRUE),
                feedback_dislike |-> CountFeedback(user_feedback, FALSE)]
    /\ UNCHANGED <<factorVars, geminiVars, fetchVars, scoreVars, engineVars, storeVars, workerVars, poolVars, learnVars>>

\* the envelope the worker records for listing id: only a scrap listing is
\* scored and published, the evaluation of the others raised
RecordedEnvelope(id) ==
    IF id \in PublishedIds THEN Envelope("SPOT", TRUE, NoMultiplier) ELSE ErrorEnvelope

\* the store fills from empty, votes are cast on published posts and handled
\* one at a time, and /admin_status arrives at any moment from any user
NextAdmin ==
    \/ \E id \in OlxIds : DbInsert(id, MaxCycles, RecordedEnvelope(id))
    \/ \E u \in Users, id \in PublishedIds, like \in BOOLEAN, db_ok \in BOOLEAN :
          /\ HasRow(olx_posts, id)
          /\ CallbackInsert(1, u, id, like, db_ok)
          /\ UNCHANGED <<geminiVars, scoreVars, fetchVars, engineVars, workerVars, handlerVars>>
    \/ CallbackFactor(1) /\ UNCHANGED <<geminiVars, scoreVars, fetchVars, engineVars, workerVars, handlerVars>>
    \/ \E db_ok \in BOOLEAN :
          CallbackUpdate(1, db_ok) /\ UNCHANGED <<geminiVars, scoreVars, fetchVars, engineVars, workerVars, handlerVars>>
    \/ CallbackAnswer(1) /\ UNCHANGED <<geminiVars, scoreVars, fetchVars, engineVars, workerVars, handlerVars>>
    \/ \E user \in Users : AdminStatus(user)

SpecAdmin == InitDedup /\ [][NextAdmin]_vars

(* ------------------------------- C25 ----------------------------------- *)
\* C25: an /admin_status update of the admin is answered with the status
\* message, which shows the counts of listings, of relevant listings, of likes
\* and of dislikes, whatever the store holds; an update of anyone else is
\* answered with the refusal and nothing is read
C25_AdminStatusAnswered ==
    admin_status.asked =>
        IF admin_status.user = ADMIN_ID
          THEN admin_status.kind = "status"
          ELSE admin_status.kind = "denied" /\ admin_status.reads = 0

(* ------------------------- the connection pool ------------------------ *)
\* connections of the pool (the N of asyncpg.create_pool)
PoolSize == 2

RECURSIVE HeldBy(_)
HeldBy(tasks) ==
    IF tasks = {} THEN 0
    ELSE LET t == CHOOSE x \in tasks : TRUE IN pool_tasks[t].held + HeldBy(tasks \ {t})

PoolFree == PoolSize - HeldBy(PoolTasks)

OtherThanPool == <<factorVars, geminiVars, fetchVars, scoreVars, engineVars, storeVars, workerVars, adminVars, learnVars>>

\* a task reaches "async with pool.acquire() as conn": the worker at the start
\* of the body of a cycle, a callback after parsing its data, a plain handler
PoolEnter(t) ==
    /\ pool_tasks[t].pc = "idle"
    /\ pool_tasks' = [pool_tasks EXCEPT ![t].pc = "want_outer"]
    /\ UNCHANGED OtherThanPool

\* pool.acquire() returns a free connection; with none free the caller stays
\* suspended (acquire is called without a timeout)
PoolGrant(t) ==
    /\ pool_tasks[t].pc \in {"want_outer", "want_inner"}
    /\ PoolFree > 0
    /\ pool_tasks' = [pool_tasks EXCEPT ![t].pc = IF @ = "want_outer" THEN "outer" ELSE "inner",
                                        ![t].held = @ + 1]
    /\ UNCHANGED OtherThanPool

\* inside the outer block the task calls a function that acquires a connection
\* of its own: _get_feedback_correction_factor in a callback (once), and
\* _get_adaptive_system_instruction or _get_feedback_correction_factor under
\* analyze_olx_item in the worker (for each listing)
PoolNested(t) ==
    /\ t /= PoolPlain
    /\ pool_tasks[t].pc = "outer"
    /\ pool_tasks' = [pool_tasks EXCEPT ![t].pc = "want_inner"]
    /\ UNCHANGED OtherThanPool

\* the inner "async with" block ends: the worker is back in its loop, a
\* callback goes on to its UPDATE
PoolReleaseInner(t) ==
    /\ pool_tasks[t].pc = "inner"
    /\ pool_tasks' = [pool_tasks EXCEPT ![t].pc = IF t = PoolWorker THEN "outer" ELSE "after",
                                        ![t].held = @ - 1]
    /\ UNCHANGED OtherThanPool

\* the outer "async with" block ends, normally or by an exception
PoolReleaseOuter(t) ==
    /\ pool_tasks[t].pc \in {"outer", "after"}
    /\ pool_tasks' = [pool_tasks EXCEPT ![t].pc = "idle", ![t].held = @ - 1]
    /\ UNCHANGED OtherThanPool

InitPool ==
    /\ FactorIdle
    /\ g_key = TRUE
    /\ GeminiIdle
    /\ FetchIdle
    /\ ScoreIdle
    /\ HandlersIdle
    /\ EngineIdle
    /\ OthersIdle

NextPool ==
    \/ \E t \in PoolTasks : PoolEnter(t)
    \/ \E t \in PoolTasks : PoolGrant(t)
    \/ \E t \in PoolTasks : PoolNested(t)
    \/ \E t \in PoolTasks : PoolReleaseInner(t)
    \/ \E t \in PoolTasks : PoolReleaseOuter(t)

SpecPool == InitPool /\ [][NextPool]_vars

(* ------------------------------- C27 ----------------------------------- *)
\* C27: in no reachable state are all connections of the pool held by tasks
\* each of which waits for a further connection
C27_NoPoolDeadlock ==
    ~(/\ PoolFree = 0
      /\ \A t \in PoolTasks : pool_tasks[t].held > 0 => pool_tasks[t].pc = "want_inner")

(* ---------------------------- C22, C23 --------------------------------- *)
\* C22: the success answer of a feedback callback is sent only after the
\* handler's vote insert, its recomputation of the correction factor and its
\* write-back have all completed; a handler in which one of them is pending
\* or has failed has not sent the success answer
C22_AckAfterStoreAndRecompute ==
    /\ \A c \in Callbacks :
          callbacks[c].answer = "success"
             => /\ callbacks[c].stored /\ callbacks[c].written
                /\ callbacks[c].pc = "done"
    /\ \A c \in Callbacks :
          callbacks[c].pc \in {"inserted", "computed", "failed"} => callbacks[c].answer /= "success"

\* a handler has sent the success answer, and another one has answered with
\* the error text after its write-back failed
C22_Witness ==
    \E c, d \in Callbacks :
        /\ callbacks[c].answer = "success" /\ callbacks[c].written
        /\ callbacks[d].answer = "error" /\ callbacks[d].stored /\ ~callbacks[d].written

\* C23: a step never removes a row of olx_posts and changes nothing of a row
\* but the feedback_multiplier of its envelope; a row changes only in the
\* write-back of a vote callback for that row's listing id, which stores the
\* factor the callback computed
C23_OnlyMultiplierChanges ==
    [][/\ Len(olx_posts') >= Len(olx_posts)
       /\ \A i \in DOMAIN olx_posts :
             LET old == olx_posts[i]
                 new == olx_posts'[i]
             IN /\ new = [old EXCEPT !.ai_analysis_json.feedback_multiplier =
                                         new.ai_analysis_json.feedback_multiplier]
                /\ new /= old =>
                      \E c \in Callbacks :
                          /\ callbacks[c].pc = "computed" /\ callbacks'[c].pc = "updated"
                          /\ callbacks[c].olx_id = old.olx_id
                          /\ new.ai_analysis_json.feedback_multiplier = callbacks[c].correction_factor]_vars

\* a vote has been written to the row of its listing while the row of another
\* listing, recorded before the write-back, is as it was inserted
C23_Witness ==
    \E i, j \in DOMAIN olx_posts, c \in Callbacks :
        /\ i < j
        /\ olx_posts[i].ai_analysis_json.feedback_multiplier.kind = "value"
        /\ olx_posts[j] = Row(olx_posts[j].olx_id, TitleOf(olx_posts[j].olx_id), OLX_PRICE_FILTER, MaxCycles, ErrorEnvelope)
        /\ callbacks[c].pc = "updated" /\ callbacks[c].olx_id = olx_posts[i].olx_id

(* ------------------- fetch_olx_data called on its own ------------------ *)
NthOf(S, i) == CHOOSE id \in S : Cardinality({j \in S : j < id}) = i - 1

\* olx_posts after the worker has recorded the listings of S
RecordedTable(S) ==
    [i \in 1..Cardinality(S) |-> Row(NthOf(S, i), TitleOf(NthOf(S, i)), OLX_PRICE_FILTER, 1, ErrorEnvelope)]

\* one call of fetch_olx_data(session, pool) whose requests get the pages
\* results (one call is looked at per behaviour)
FetchCall(results) ==
    /\ ~fetched.called
    /\ fetched' = [called |-> TRUE, results |-> results, posts |-> FetchOlxData(olx_posts, results)]
    /\ UNCHANGED <<factorVars, geminiVars, handlerVars, scoreVars, engineVars, storeVars, workerVars>>

InitFetch ==
    /\ FactorIdle
    /\ g_key = TRUE
    /\ GeminiIdle
    /\ FetchIdle
    /\ ScoreIdle
    /\ HandlersIdle
    /\ EngineIdle
    /\ olx_posts \in {RecordedTable(S) : S \in SUBSET OlxIds}
    /\ db_status = ""
    /\ channel_set = TRUE
    /\ WorkerIdle

NextFetch == \E results \in [DOMAIN SearchQueries -> Pages] : FetchCall(results)

SpecFetch == InitFetch /\ [][NextFetch]_vars

(* ----------------------------- C13, C14 -------------------------------- *)
\* the cards of a page that are new listings at or above the price floor
NewCards(page, table) ==
    {i \in DOMAIN page.cards :
        /\ page.cards[i].olx_id /= 0
        /\ page.cards[i].olx_id \notin ExistingIds(table)
        /\ page.cards[i].price >= OLX_PRICE_FILTER}

MergedIsEmpty ==
    \A k \in DOMAIN fetched.results : NewCards(fetched.results[k], olx_posts) = {}

\* C13: when the pages of all search terms give no listing, fetch_olx_data
\* returns 1 to 5 listings (the synthesized placeholders), not an empty list
C13_SyntheticFallback ==
    (fetched.called /\ MergedIsEmpty) => Len(fetched.posts) \in 1..5

\* C14: the request of a search term that fails adds no listing, and every new
\* listing on the page of any other term is in the list fetch_olx_data returns
C14_FailingTermTolerated ==
    fetched.called =>
        /\ \A p \in DOMAIN fetched.posts :
              \E k \in DOMAIN fetched.results :
                  /\ fetched.results[k].ok
                  /\ \E i \in NewCards(fetched.results[k], olx_posts) :
                        fetched.results[k].cards[i].olx_id = fetched.posts[p].olx_id
        /\ \A k \in DOMAIN fetched.results :
              \A i \in NewCards(fetched.results[k], olx_posts) :
                  \E p \in DOMAIN fetched.posts :
                      fetched.posts[p].olx_id = fetched.results[k].cards[i].olx_id

\* the request of one term failed and the page of another term showed a new
\* listing, which the call returned
C14_Witness ==
    /\ fetched.called
    /\ \E k \in DOMAIN fetched.results : ~fetched.results[k].ok
    /\ \E k \in DOMAIN fetched.results : NewCards(fetched.results[k], olx_posts) /= {}
    /\ fetched.posts /= <<>>
(* -------------------- the arithmetic of the scoring models ------------- *)
\* the floats of the scoring models, kept exact as fractions in lowest terms
Abs(n) == IF n < 0 THEN -n ELSE n
Max(a, b) == IF a >= b THEN a ELSE b

RECURSIVE Gcd(_, _)
Gcd(a, b) == IF b = 0 THEN a ELSE Gcd(b, a % b)

Q(n, d) ==
    LET g == Gcd(Abs(n), d)
    IN IF n = 0 THEN [num |-> 0, den |-> 1] ELSE [num |-> n \div g, den |-> d \div g]
QInt(n) == [num |-> n, den |-> 1]
QMul(a, b) ==
    LET x == Q(a.num, b.den)
        y == Q(b.num, a.den)
    IN Q(x.num * y.num, x.den * y.den)
QAdd(a, b) ==
    LET g == Gcd(a.den, b.den)
    IN Q(a.num * (b.den \div g) + b.num * (a.den \div g), (a.den \div g) * b.den)
QSub(a, b) == QAdd(a, [num |-> -b.num, den |-> b.den])
QLt(a, b) == a.num * b.den < b.num * a.den
QMin(a, b) == IF QLt(b, a) THEN b ELSE a
QMax(a, b) == IF QLt(a, b) THEN b ELSE a

\* Python round(x): to the nearest integer, a tie to the even one
Round(x) ==
    LET q == x.num \div x.den
        r == x.num % x.den
    IN IF 2 * r < x.den THEN q
       ELSE IF 2 * r > x.den THEN q + 1
       ELSE IF q % 2 = 0 THEN q ELSE q + 1

\* potential_profit_percent > MIN_PROFIT_MARGIN_PERCENT, the percentage being
\* (potential_profit_uah / olx_price) * 100 if olx_price > 0 else 0
ProfitPercent(potential_profit_uah, olx_price) ==
    IF olx_price > 0 THEN QMul(Q(potential_profit_uah, olx_price), QInt(100)) ELSE QInt(0)
IsProfitable(potential_profit_uah, olx_price) ==
    QLt(QInt(MIN_PROFIT_MARGIN_PERCENT), ProfitPercent(potential_profit_uah, olx_price))

\* _analyze_collectible: round(rav_value - olx_price - (rav_value * FEES / 100))
PotentialProfitCollectible(rav_value, olx_price) ==
    Round(QSub(QInt(rav_value - olx_price), Q(rav_value * TRANSACTION_FEES_PERCENT, 100)))

\* mutant: the fee is taken on the estimated value
PotentialProfitMachinery_FeeOnValue(tiv_value, olx_price) ==
    Round(QSub(QInt(tiv_value - olx_price), Q(tiv_value * TRANSACTION_FEES_PERCENT, 100)))

\* _analyze_machinery: round(tiv_value - olx_price - (olx_price * FEES / 100))
PotentialProfitMachinery(tiv_value, olx_price) ==
    Round(QSub(QInt(tiv_value - olx_price), Q(olx_price * TRANSACTION_FEES_PERCENT, 100)))

\* the argument of the feedback factor as a fraction
FactorAsQ(feedback_multiplier) == Q(feedback_multiplier.num, feedback_multiplier.den)

\* _analyze_machinery after the feedback factor has been returned; year_diff is
\* self.current_year - year
MachineryModel(avg_sale_price, year_diff, condition, hours, feedback_multiplier, olx_price) ==
    LET age == Max(0, year_diff)
        depreciation_factor == QMin(Q(9, 10), Q(age * MACHINERY_DEPRECIATION_RATE_X100, 100))
        value_after_age == QMul(QInt(avg_sale_price), QSub(QInt(1), depreciation_factor))
        condition_multiplier ==
            QAdd(QMul(Q(condition, 10), Q(MACHINERY_CONDITION_WEIGHT_X100, 100)),
                 QSub(QInt(1), Q(MACHINERY_CONDITION_WEIGHT_X100, 100)))
        hours_penalty_uah ==
            QMul(QMul(QInt(hours), Q(MACHINERY_HOURS_PENALTY_RATE_X1000000, 1000000)), QInt(avg_sale_price))
        tiv_value_raw == Round(QSub(QMul(value_after_age, condition_multiplier), hours_penalty_uah))
        tiv_value == Max(OLX_PRICE_FILTER, Round(QMul(QInt(tiv_value_raw), FactorAsQ(feedback_multiplier))))
        potential_profit_uah == PotentialProfitMachinery(tiv_value, olx_price)
    IN [model |-> "TIV", raised |-> FALSE, olx_price |-> olx_price,
        avg_sale_price |-> avg_sale_price, year_diff |-> year_diff,
        condition |-> condition, hours |-> hours,
        depreciation_factor |-> depreciation_factor,
        potential_profit_percent |-> ProfitPercent(potential_profit_uah, olx_price),
        estimated_value |-> tiv_value, potential_profit_uah |-> potential_profit_uah,
        is_relevant |-> IsProfitable(potential_profit_uah, olx_price),
        feedback_multiplier |-> feedback_multiplier]

\* _analyze_collectible after the feedback factor has been returned;
\* prestige_x10 is ten times the prestige multiplier of the brand in the title
CollectibleModel(avg_auction_price, ai_rarity, condition_rating, authenticity_risk, prestige_x10, feedback_multiplier, olx_price) ==
    LET rarity_factor == Q(ai_rarity, 100)
        condition_factor == Q(condition_rating, 10)
        authenticity_penalty == QSub(QInt(1), Q(authenticity_risk, 100))
        rav_value_raw ==
            Round(QMul(QMul(QMul(QMul(QInt(avg_auction_price), rarity_factor), condition_factor),
                            authenticity_penalty), Q(prestige_x10, 10)))
        rav_value == Round(QMul(QInt(rav_value_raw), FactorAsQ(feedback_multiplier)))
        potential_profit_uah == PotentialProfitCollectible(rav_value, olx_price)
    IN [model |-> "RAV", raised |-> FALSE, olx_price |-> olx_price,
        potential_profit_percent |-> ProfitPercent(potential_profit_uah, olx_price),
        estimated_value |-> rav_value, potential_profit_uah |-> potential_profit_uah,
        is_relevant |-> IsProfitable(potential_profit_uah, olx_price),
        feedback_multiplier |-> feedback_multiplier]

\* mutant: every listing is taken for a collectible and its weight de-biased
DebiasApplies_Always(olx_price, implied_spot_value) == TRUE

\* olx_price > implied_spot_value * 5
DebiasApplies(olx_price, implied_spot_value) ==
    QLt(QMul(implied_spot_value, QInt(5)), QInt(olx_price))

\* mutant: a discount equal to the margin counts
IsDiscounted_NonStrict(premium_discount_percent) ==
    ~QLt(QInt(-MIN_PROFIT_MARGIN_PERCENT), premium_discount_percent)

\* premium_discount_percent < -1 * MIN_PROFIT_MARGIN_PERCENT
IsDiscounted(premium_discount_percent) ==
    QLt(premium_discount_percent, QInt(-MIN_PROFIT_MARGIN_PERCENT))

\* _analyze_spot; is_gold is whether refined_keywords has a gold word
SpotModel(is_gold, estimated_weight_raw, olx_price) ==
    LET spot_price_per_gram ==
            Q(IF is_gold THEN GOLD_585_UAH_PER_GRAM_X10 ELSE SILVER_925_UAH_PER_GRAM_X10, 10)
        implied_spot_value == QMul(QInt(estimated_weight_raw), spot_price_per_gram)
        debias == DebiasApplies(olx_price, implied_spot_value)
        estimated_weight_g ==
            IF debias THEN QMax(QInt(1), Q(estimated_weight_raw, 10)) ELSE QInt(estimated_weight_raw)
        calculated_spot_value == Round(QMul(estimated_weight_g, spot_price_per_gram))
        premium_discount_percent ==
            IF calculated_spot_value > 0
              THEN QMul(Q(olx_price - calculated_spot_value, calculated_spot_value), QInt(100))
              ELSE QInt(100)
        is_relevant == IsDiscounted(premium_discount_percent)
    IN [model |-> "SPOT", raised |-> FALSE, olx_price |-> olx_price,
        is_gold |-> is_gold, estimated_weight_raw |-> estimated_weight_raw,
        implied_spot_value |-> implied_spot_value, debiased |-> debias,
        estimated_weight_g |-> estimated_weight_g,
        calculated_spot_value |-> calculated_spot_value,
        premium_discount_percent |-> premium_discount_percent,
        is_relevant |-> is_relevant,
        deal_assessment |-> IF is_relevant THEN "discount" ELSE "premium"]

(* --------------------- the scoring models on their own ------------------ *)
\* user_feedback holding the given numbers of likes and dislikes of a listing
TallyTable(olx_id, likes, dislikes) ==
    (IF likes > 0 THEN [user_id |-> 1, olx_id |-> olx_id, is_like |-> TRUE] :> likes ELSE EmptyBag)
      (+) (IF dislikes > 0 THEN [user_id |-> 1, olx_id |-> olx_id, is_like |-> FALSE] :> dislikes ELSE EmptyBag)

\* the arguments the models are called with
Tallies == {<<0, 0>>, <<1, 0>>, <<1, 1>>, <<0, 1>>}
ListingPrices == {20004, 30000, 100000}
SalePrices == {40000, 52010, 200000}
YearDiffs == {-1, 5, 10, 20}
Conditions == {5, 8, 10}
OperatingHours == {0, 3000}
RarityScores == {50, 99}
AuthenticityRisks == {0, 30}
PrestigeX10 == {10, 15}
Weights == {0, 1, 50, 500}
SpotListingPrices == {24250, 100000, 113999, 114000, 142500, 800000}

\* a call of _analyze_machinery for a listing with the given votes (one call
\* of a scoring model is looked at per behaviour)
ScoreMachinery(tally, avg_sale_price, year_diff, condition, hours, olx_price) ==
    /\ scored = NoScore
    /\ LET feedback_multiplier == GetFeedbackCorrectionFactor(TallyTable(1, tally[1], tally[2]), 1)
       IN scored' = IF feedback_multiplier.kind /= "value"
                      THEN [model |-> "TIV", raised |-> TRUE]
                      ELSE MachineryModel(avg_sale_price, year_diff, condition, hours,
                                          feedback_multiplier, olx_price)
    /\ UNCHANGED <<factorVars, geminiVars, handlerVars, fetchVars, engineVars, storeVars, workerVars>>

\* a call of _analyze_collectible for a listing with the given votes
ScoreCollectible(tally, avg_auction_price, ai_rarity, condition_rating, authenticity_risk, prestige_x10, olx_price) ==
    /\ scored = NoScore
    /\ LET feedback_multiplier == GetFeedbackCorrectionFactor(TallyTable(1, tally[1], tally[2]), 1)
       IN scored' = IF feedback_multiplier.kind /= "value"
                      THEN [model |-> "RAV", raised |-> TRUE]
                      ELSE CollectibleModel(avg_auction_price, ai_rarity, condition_rating,
                                            authenticity_risk, prestige_x10,
                                            feedback_multiplier, olx_price)
    /\ UNCHANGED <<factorVars, geminiVars, handlerVars, fetchVars, engineVars, storeVars, workerVars>>

\* a call of _analyze_spot
ScoreSpot(is_gold, estimated_weight_raw, olx_price) ==
    /\ scored = NoScore
    /\ scored' = SpotModel(is_gold, estimated_weight_raw, olx_price)
    /\ UNCHANGED <<factorVars, geminiVars, handlerVars, fetchVars, engineVars, storeVars, workerVars>>

InitScoring ==
    /\ FactorIdle
    /\ g_key = TRUE
    /\ GeminiIdle
    /\ FetchIdle
    /\ ScoreIdle
    /\ HandlersIdle
    /\ EngineIdle
    /\ OthersIdle

NextScoring ==
    \/ \E tally \in Tallies, avg_sale_price \in SalePrices, year_diff \in YearDiffs,
          condition \in Conditions, hours \in OperatingHours, olx_price \in ListingPrices :
          ScoreMachinery(tally, avg_sale_price, year_diff, condition, hours, olx_price)
    \/ \E tally \in Tallies, avg_auction_price \in SalePrices, ai_rarity \in RarityScores,
          condition_rating \in Conditions, authenticity_risk \in AuthenticityRisks,
          prestige_x10 \in PrestigeX10, olx_price \in ListingPrices :
          ScoreCollectible(tally, avg_auction_price, ai_rarity, condition_rating,
                           authenticity_risk, prestige_x10, olx_price)
    \/ \E is_gold \in BOOLEAN, estimated_weight_raw \in Weights, olx_price \in SpotListingPrices :
          ScoreSpot(is_gold, estimated_weight_raw, olx_price)

SpecScoring == InitScoring /\ [][NextScoring]_vars

(* ------------------------ C15, C16, C17, C18, C19 ---------------------- *)
\* C15: the collectible model gives the profit and the relevance that the
\* equipment model gives for the same estimated value and listing price
C15_CollectibleAsEquipment ==
    (scored.model = "RAV" /\ ~scored.raised) =>
        /\ scored.potential_profit_uah
              = PotentialProfitMachinery(scored.estimated_value, scored.olx_price)
        /\ scored.is_relevant
              = IsProfitable(PotentialProfitMachinery(scored.estimated_value, scored.olx_price),
                             scored.olx_price)

\* C16: in the spot model a listing priced at its calculated spot value (> 0)
\* has premium_discount_percent 0 and is not relevant, and a listing is relevant
\* exactly when its price is below the spot value by more than the margin
C16_SpotRelevance ==
    scored.model = "SPOT" =>
        /\ (scored.calculated_spot_value > 0 /\ scored.olx_price = scored.calculated_spot_value)
              => scored.premium_discount_percent = QInt(0) /\ ~scored.is_relevant
        /\ scored.is_relevant
              <=> /\ scored.calculated_spot_value > 0
                  /\ (scored.calculated_spot_value - scored.olx_price) * 100
                        > MIN_PROFIT_MARGIN_PERCENT * scored.calculated_spot_value

\* 50 g of gold offered at exactly its spot value
C16_Witness ==
    /\ scored.model = "SPOT"
    /\ scored.calculated_spot_value > 0
    /\ scored.olx_price = scored.calculated_spot_value
    /\ ~scored.is_relevant

ScenarioA ==
    /\ scored.model = "TIV" /\ ~scored.raised
    /\ scored.olx_price = 100000 /\ scored.avg_sale_price = 200000
    /\ scored.year_diff = 5 /\ scored.condition = 10 /\ scored.hours = 0
    /\ FactorAsQ(scored.feedback_multiplier) = QInt(1)

\* C17: scenario A gives depreciation 0.25, TIV 150000, profit 40000, a margin
\* of 40 % and is_relevant = true
C17_ScenarioA ==
    ScenarioA =>
        /\ scored.depreciation_factor = Q(1, 4)
        /\ scored.estimated_value = 150000
        /\ scored.potential_profit_uah = 40000
        /\ scored.potential_profit_percent = QInt(40)
        /\ scored.is_relevant

C17_Witness == ScenarioA /\ scored.is_relevant

ScenarioB ==
    /\ scored.model = "SPOT"
    /\ scored.is_gold /\ scored.estimated_weight_raw = 50 /\ scored.olx_price = 100000

\* C18: scenario B is not de-biased, has spot value 142500 and a premium of
\* -29.8 % (to one decimal), is relevant and carries the discount label
C18_ScenarioB ==
    ScenarioB =>
        /\ scored.implied_spot_value = QInt(142500)
        /\ ~scored.debiased
        /\ scored.calculated_spot_value = 142500
        /\ QLt(Q(-2985, 100), scored.premium_discount_percent)
        /\ QLt(scored.premium_discount_percent, Q(-2975, 100))
        /\ scored.is_relevant
        /\ scored.deal_assessment = "discount"

C18_Witness == ScenarioB /\ scored.deal_assessment = "discount"

\* C19: for an equipment envelope, value - price - price x fee% computed from
\* estimated_value and the price of the row (the olx_price of the call) is the
\* stored potential_profit_uah, and that profit / price x 100 > margin is the
\* stored is_relevant
C19_ProfitReproducible ==
    (scored.model = "TIV" /\ ~scored.raised) =>
        LET profit == QSub(QInt(scored.estimated_value - scored.olx_price),
                           Q(scored.olx_price * TRANSACTION_FEES_PERCENT, 100))
            percent == QMul(QMul(profit, Q(1, scored.olx_price)), QInt(100))
        IN /\ profit = QInt(scored.potential_profit_uah)
           /\ QLt(QInt(MIN_PROFIT_MARGIN_PERCENT), percent) <=> scored.is_relevant

(* ------------------------------- C29 ----------------------------------- *)
\* C29: an evaluation that went to the spot model returned an envelope without
\* feedback_multiplier, and the evaluation of the same listing with the same
\* vision result gives the same outcome (the same is_relevant, the same
\* envelope) under the votes stored now as under any other tally of votes
C29_SpotIgnoresFeedback ==
    (last_analysis.called /\ last_analysis.invoked = "_analyze_spot" /\ ~last_analysis.raised)
        => /\ last_analysis.envelope.feedback_multiplier = NoMultiplier
           /\ \A tally \in Tallies :
                 LET rel == last_analysis.envelope.is_relevant
                     here == AnalyzeOlxItem(last_analysis.olx_id, last_analysis.title, TRUE,
                                            last_analysis.ai, "none", rel, user_feedback)
                     there == AnalyzeOlxItem(last_analysis.olx_id, last_analysis.title, TRUE,
                                             last_analysis.ai, "none", rel,
                                             TallyTable(last_analysis.olx_id, tally[1], tally[2]))
                 IN /\ here.envelope = last_analysis.envelope
                    /\ there = here

\* a scrap listing that has a vote was evaluated by the spot model and found
\* relevant
C29_Witness ==
    /\ last_analysis.called /\ last_analysis.invoked = "_analyze_spot"
    /\ last_analysis.envelope.type = "SPOT" /\ last_analysis.envelope.is_relevant
    /\ GetFeedbackCorrectionFactor(user_feedback, last_analysis.olx_id).kind = "value"

(* ------------------------ the learning dialogue ------------------------ *)
\* lessons generated in a behaviour
MaxLessons == 2

\* slot h handles no update
FreeRun(h) == learn_runs[h].pc \in {"idle", "raised"}

OtherThanLearn == <<factorVars, geminiVars, fetchVars, scoreVars, engineVars, storeVars, workerVars, adminVars, poolVars>>

\* command_start_learning: state.clear(), set_state(waiting_for_topic), then
\* the prompt for a topic
CommandStartLearning ==
    /\ fsm_state' = "waiting_for_topic"
    /\ fsm_data' = 0
    /\ UNCHANGED <<last_lesson, lesson_count, learn_runs, OtherThanLearn>>

\* a text arrives in waiting_for_topic and process_learning_topic starts: it
\* sends the "generating" note and awaits generate_collector_lesson
ProcessLearningTopic(h) ==
    /\ fsm_state = "waiting_for_topic"
    /\ FreeRun(h)
    /\ learn_runs' = [learn_runs EXCEPT ![h].pc = "generating"]
    /\ UNCHANGED <<fsm_state, fsm_data, last_lesson, lesson_count, OtherThanLearn>>

\* "learn_next" is pressed in waiting_for_next and process_learning_callback
\* awaits generate_collector_lesson for the stored topic
ProcessLearningNext(h) ==
    /\ fsm_state = "waiting_for_next"
    /\ FreeRun(h)
    /\ learn_runs' = [learn_runs EXCEPT ![h].pc = "generating"]
    /\ UNCHANGED <<fsm_state, fsm_data, last_lesson, lesson_count, OtherThanLearn>>

\* "learn_change_topic" is pressed in waiting_for_next: state.clear() and
\* command_start_learning
ProcessLearningChangeTopic ==
    /\ fsm_state = "waiting_for_next"
    /\ fsm_state' = "waiting_for_topic"
    /\ fsm_data' = 0
    /\ UNCHANGED <<last_lesson, lesson_count, learn_runs, OtherThanLearn>>

\* generate_collector_lesson returns: with a lesson, state.update_data(topic,
\* quiz_answer, quiz_hint) and the lesson message is being sent; with None the
\* error message is being sent
LessonGenerated(h, ok) ==
    /\ learn_runs[h].pc = "generating"
    /\ IF ok
         THEN /\ lesson_count < MaxLessons
              /\ lesson_count' = lesson_count + 1
              /\ fsm_data' = lesson_count'
              /\ learn_runs' = [learn_runs EXCEPT ![h] = [pc |-> "sending", lesson |-> lesson_count']]
         ELSE /\ learn_runs' = [learn_runs EXCEPT ![h].pc = "refusing"]
              /\ UNCHANGED <<lesson_count, fsm_data>>
    /\ UNCHANGED <<fsm_state, last_lesson, OtherThanLearn>>

\* the error message was sent: state.clear(); or its send raised and the
\* handler ended there
LessonRefused(h, sent) ==
    /\ learn_runs[h].pc = "refusing"
    /\ learn_runs' = [learn_runs EXCEPT ![h] = IF sent THEN IdleRun ELSE RaisedRun]
    /\ IF sent THEN fsm_state' = "none" /\ fsm_data' = 0
               ELSE UNCHANGED <<fsm_state, fsm_data>>
    /\ UNCHANGED <<last_lesson, lesson_count, OtherThanLearn>>

\* the lesson message was sent: set_state(in_session); or its send raised
LessonSent(h, sent) ==
    /\ learn_runs[h].pc = "sending"
    /\ learn_runs' = [learn_runs EXCEPT ![h] = IF sent THEN IdleRun ELSE RaisedRun]
    /\ IF sent THEN fsm_state' = "in_session" /\ last_lesson' = learn_runs[h].lesson
               ELSE UNCHANGED <<fsm_state, last_lesson>>
    /\ UNCHANGED <<fsm_data, lesson_count, OtherThanLearn>>

\* a text arrives in in_session and process_quiz_answer starts: it reads the
\* data (data['quiz_answer'] raises KeyError on empty data), builds the
\* feedback and sends it
ProcessQuizAnswer(h) ==
    /\ fsm_state = "in_session"
    /\ FreeRun(h)
    /\ learn_runs' = [learn_runs EXCEPT ![h] = IF fsm_data = 0 THEN RaisedRun
                                                ELSE [pc |-> "answering", lesson |-> fsm_data]]
    /\ UNCHANGED <<fsm_state, fsm_data, last_lesson, lesson_count, OtherThanLearn>>

\* the feedback was sent: set_state(waiting_for_next); or its send raised
QuizAnswered(h, sent) ==
    /\ learn_runs[h].pc = "answering"
    /\ learn_runs' = [learn_runs EXCEPT ![h] = IF sent THEN IdleRun ELSE RaisedRun]
    /\ fsm_state' = IF sent THEN "waiting_for_next" ELSE fsm_state
    /\ UNCHANGED <<fsm_data, last_lesson, lesson_count, OtherThanLearn>>

InitLearn ==
    /\ FactorIdle
    /\ g_key = TRUE
    /\ GeminiIdle
    /\ FetchIdle
    /\ ScoreIdle
    /\ HandlersIdle
    /\ EngineIdle
    /\ OthersIdle

NextLearn ==
    \/ CommandStartLearning
    \/ \E h \in LearnRuns : ProcessLearningTopic(h)
    \/ \E h \in LearnRuns : ProcessLearningNext(h)
    \/ ProcessLearningChangeTopic
    \/ \E h \in LearnRuns, ok \in BOOLEAN : LessonGenerated(h, ok)
    \/ \E h \in LearnRuns, sent \in BOOLEAN : LessonRefused(h, sent)
    \/ \E h \in LearnRuns, sent \in BOOLEAN : LessonSent(h, sent)
    \/ \E h \in LearnRuns : ProcessQuizAnswer(h)
    \/ \E h \in LearnRuns, sent \in BOOLEAN : QuizAnswered(h, sent)

SpecLearn == InitLearn /\ [][NextLearn]_vars

(* ------------------------------- C30 ----------------------------------- *)
\* C30: whenever the FSM state is in_session the FSM data holds the topic,
\* quiz_answer and quiz_hint of the lesson last delivered to the user; a run
\* whose lesson generation returned nothing returns with the state cleared; and
\* a run that handles a text received in in_session returns with the state
\* waiting_for_next (a run that a failed send ends with an exception is not
\* counted against the claim)
C30_InSessionHoldsLesson ==
    /\ [](fsm_state = "in_session" => (last_lesson /= 0 /\ fsm_data = last_lesson))
    /\ [][\A h \in LearnRuns :
             /\ (learn_runs[h].pc = "refusing" /\ learn_runs'[h].pc = "idle")
                   => fsm_state' = "none"
             /\ (learn_runs[h].pc = "answering" /\ learn_runs'[h].pc = "idle")
                   => fsm_state' = "waiting_for_next"]_vars
====
